---- MODULE Spec2Model ----
(***************************************************************************)
(* Protocol decoder (PacketInterpreter::Interpret), toroidal chunk cache   *)
(* (World), build scheduler (GameState::Update) and face-culling mesher    *)
(* (GameState::BuildChunkMesh) of the polymer block-game client.           *)
(*                                                                         *)
(* Conventions                                                             *)
(*  - a byte is an integer 0..255; a u64 / double is the sequence of its 8 *)
(*    bytes in wire (big-endian) order, a float the sequence of its 4      *)
(*    bytes, because the checker's integers are 32 bits wide;              *)
(*  - a ring buffer is a record [data, read_offset, write_offset, size];   *)
(*  - zero-initialised arrays (block ids, chunk infos, vertex counts) are  *)
(*    kept sparse: a function whose domain holds only the non-default      *)
(*    entries.                                                             *)
(***************************************************************************)
EXTENDS Integers, Sequences, FiniteSets, TLC

(***************************************************************************)
(* Bounds of the model.                                                    *)
(***************************************************************************)
RbSize == 64
MaxPackets == 2
MaxQueue == 2
MaxEdits == 2
MaxIndexInput == 60
MaxPending == 5
MaxSchedEdits == 2

(***************************************************************************)
(* Program constants.                                                      *)
(***************************************************************************)
kChunkCacheSize == 24
InflateSize == 2097152
BarrierId == 7540
StringCapacity == 32767
BuildQueueCapacity == 1024
MaxVarIntBytes == 10

\* Values of 2^28 and above are not told apart: every size and count a
\* buffer of the model can satisfy is far below it.
VarIntHuge == 268435456

(***************************************************************************)
(* Arithmetic helpers.                                                     *)
(***************************************************************************)
Pow2(n) == IF n <= 0 THEN 1 ELSE 2 ^ n

Min(a, b) == IF a <= b THEN a ELSE b

\* C++ integer division and remainder truncate toward zero.
CDiv(a, b) == IF a >= 0 \/ a % b = 0 THEN a \div b ELSE (a \div b) + 1
CRem(a, b) == IF a >= 0 \/ a % b = 0 THEN a % b ELSE (a % b) - b

RECURSIVE SumTo(_, _, _)
SumTo(f(_), lo, hi) ==
  IF lo > hi THEN 0
  ELSE IF lo = hi THEN f(lo)
  ELSE SumTo(f, lo, (lo + hi) \div 2) + SumTo(f, (lo + hi) \div 2 + 1, hi)

RECURSIVE Concat(_)
Concat(ss) ==
  IF Len(ss) = 0 THEN << >>
  ELSE IF Len(ss) = 1 THEN ss[1]
  ELSE Concat(SubSeq(ss, 1, Len(ss) \div 2))
         \o Concat(SubSeq(ss, Len(ss) \div 2 + 1, Len(ss)))

Zeros(n) == [i \in 1..n |-> 0]

\* Sparse zero-initialised storage.
EmptyMap == [k \in {} |-> 0]
Get(f, k, dflt) == IF k \in DOMAIN f THEN f[k] ELSE dflt
Put(f, k, v, dflt) ==
  IF v = dflt THEN [kk \in (DOMAIN f) \ {k} |-> f[kk]]
  ELSE [kk \in (DOMAIN f) \cup {k} |-> IF kk = k THEN v ELSE f[kk]]

(***************************************************************************)
(* Byte-Stream Reader (RingBuffer).  Its code is not among the sources; it *)
(* is modelled from the specification's sections 3 and 4.1.                *)
(***************************************************************************)
GetReadAmount(b) == (b.write_offset - b.read_offset + b.size) % b.size

GetFreeSize(b) == b.size - 1 - GetReadAmount(b)

ByteAt(b, off) ==
  LET i == off % b.size IN IF i < Len(b.data) THEN b.data[i + 1] ELSE 0

\* n raw bytes, or "not enough data" without moving the cursor.
ReadRaw(b, n) ==
  IF GetReadAmount(b) >= n
  THEN [ok |-> TRUE,
        bytes |-> [i \in 1..n |-> ByteAt(b, b.read_offset + i - 1)],
        rb |-> [b EXCEPT !.read_offset = (b.read_offset + n) % b.size]]
  ELSE [ok |-> FALSE, bytes |-> Zeros(n), rb |-> b]

\* Number of bytes of the VarInt at the cursor; 0 when no byte without a
\* continuation bit is found among the available bytes (at most 10).
VarIntEnds(b) ==
  {i \in 0..(Min(GetReadAmount(b), MaxVarIntBytes) - 1) :
     ByteAt(b, b.read_offset + i) < 128}

VarIntLen(b) ==
  IF VarIntEnds(b) = {} THEN 0
  ELSE 1 + CHOOSE i \in VarIntEnds(b) : \A j \in VarIntEnds(b) : i <= j

VarIntGroup(b, i) == ByteAt(b, b.read_offset + i) % 128

VarIntValue(b, n) ==
  IF \E i \in 4..(n - 1) : VarIntGroup(b, i) > 0 THEN VarIntHuge
  ELSE LET term(i) == VarIntGroup(b, i) * Pow2(7 * i)
       IN SumTo(term, 0, Min(n, 4) - 1)

\* ReadVarInt: little-endian 7-bit groups; fails without moving the cursor
\* when the encoding is truncated or longer than 10 bytes.
ReadVarIntOf(b, n) ==
  IF n = 0 THEN [ok |-> FALSE, value |-> 0, rb |-> b]
  ELSE [ok |-> TRUE, value |-> VarIntValue(b, n),
        rb |-> [b EXCEPT !.read_offset = (b.read_offset + n) % b.size]]

ReadVarInt(b) == ReadVarIntOf(b, VarIntLen(b))

ReadU8Of(r) == [ok |-> r.ok, value |-> r.bytes[1], rb |-> r.rb]
ReadU8(b) == ReadU8Of(ReadRaw(b, 1))

ReadU16Of(r) == [ok |-> r.ok, value |-> r.bytes[1] * 256 + r.bytes[2], rb |-> r.rb]
ReadU16(b) == ReadU16Of(ReadRaw(b, 2))

\* ReadU32, ReadU64, ReadFloat and ReadDouble give the bytes read.
ReadBytesOf(r) == [ok |-> r.ok, value |-> r.bytes, rb |-> r.rb]
ReadU32(b) == ReadBytesOf(ReadRaw(b, 4))
ReadU64(b) == ReadBytesOf(ReadRaw(b, 8))
ReadFloat(b) == ReadU32(b)
ReadDouble(b) == ReadU64(b)

\* A ReadU32 result converted to s32, as the chunk coordinates are.
S32OfBytes(bs) ==
  (IF bs[1] >= 128 THEN bs[1] - 256 ELSE bs[1]) * 16777216
    + bs[2] * 65536 + bs[3] * 256 + bs[4]

\* A ReadU32 result kept unsigned (a count).
U32OfBytes(bs) ==
  IF bs[1] >= 16 THEN VarIntHuge
  ELSE bs[1] * 16777216 + bs[2] * 65536 + bs[3] * 256 + bs[4]

\* ReadRawString: n bytes into the caller's string, nothing when they are
\* not all there.
ReadRawString(b, n) == ReadBytesOf(ReadRaw(b, n))

\* ReadString: VarInt length, then the bytes; the length read is 0 when the
\* string is truncated or larger than the destination.
ReadStringOf(b, l, capacity) ==
  IF ~l.ok \/ l.value > capacity \/ GetReadAmount(l.rb) < l.value
  THEN [ok |-> FALSE, value |-> << >>, rb |-> b]
  ELSE ReadRawString(l.rb, l.value)
ReadString(b, capacity) == ReadStringOf(b, ReadVarInt(b), capacity)


\* Bit k (0 = least significant) of a u64 (or u32) held as big-endian bytes.
U64Bit(bs, k) == (bs[Len(bs) - (k \div 8)] \div Pow2(k % 8)) % 2

\* (v >> shift) & ((1 << width) - 1) for width <= 30.
U64Field(bs, shift, width) ==
  LET term(k) == IF shift + k < 8 * Len(bs) THEN U64Bit(bs, shift + k) * Pow2(k)
                 ELSE 0
  IN SumTo(term, 0, width - 1)

\* The value of a double (8 bytes) or float (4 bytes) whose value is an
\* integer below 2^20 in magnitude: sign, biased exponent and the leading
\* bits of the significand.
IeeeInteger(bs, exp_bits, bias) ==
  LET frac_bits == 8 * Len(bs) - 1 - exp_bits
      e == U64Field(bs, frac_bits, exp_bits) - bias
      top == U64Field(bs, frac_bits - 20, 20)
      mag == IF e < 0 \/ e > 20 THEN 0 ELSE Pow2(e) + top \div Pow2(20 - e)
  IN IF U64Bit(bs, 8 * Len(bs) - 1) = 1 THEN -mag ELSE mag

DoubleValue(bs) == IeeeInteger(bs, 11, 1023)

FloatValue(bs) == IeeeInteger(bs, 8, 127)

(***************************************************************************)
(* The decompressor (mz_uncompress).  Only its contract matters to the     *)
(* decoder: a self-terminating stream is inflated from a source of         *)
(* source_len bytes; the stream ending inside the source gives MZ_OK, the  *)
(* source ending inside the stream gives an error.  The stream format here *)
(* is a header byte, (count, byte) runs and a zero terminator.             *)
(***************************************************************************)
DeflateHeader == 120

RECURSIVE RunLength(_, _)
RunLength(bs, n) ==
  IF n < Len(bs) /\ n < 255 /\ bs[n + 1] = bs[1] THEN RunLength(bs, n + 1) ELSE n

RECURSIVE DeflateRuns(_)
DeflateRuns(bs) ==
  IF bs = << >> THEN << >>
  ELSE LET n == RunLength(bs, 1)
       IN <<n, bs[1]>> \o DeflateRuns(SubSeq(bs, n + 1, Len(bs)))

Deflate(bs) == <<DeflateHeader>> \o DeflateRuns(bs) \o <<0>>

RECURSIVE InflateRuns(_, _)
InflateRuns(src, i) ==
  IF i > Len(src) THEN [ok |-> FALSE, out |-> << >>]
  ELSE IF src[i] = 0 THEN [ok |-> TRUE, out |-> << >>]
  ELSE IF i + 1 > Len(src) \/ src[i] < 0 \/ src[i + 1] < 0
       THEN [ok |-> FALSE, out |-> << >>]
  ELSE LET r == InflateRuns(src, i + 2)
       IN [ok |-> r.ok, out |-> [k \in 1..src[i] |-> src[i + 1]] \o r.out]

mz_uncompress(src) ==
  IF Len(src) = 0 \/ src[1] # DeflateHeader THEN [ok |-> FALSE, out |-> << >>]
  ELSE InflateRuns(src, 2)

(***************************************************************************)
(* The server side of the wire format: how the packets that the decoder is *)
(* fed are laid out.  A packet is a record                                 *)
(*   [kind, id, body, slack, z, arg]                                       *)
(* id and body are the payload, slack < 0 cuts that many bytes off the end *)
(* of the payload (a frame shorter than its handler reads), slack > 0 adds *)
(* that many surplus bytes, z asks for a deflated frame once compression   *)
(* is on, arg is what the packet means.                                    *)
(***************************************************************************)
RECURSIVE EncVarInt(_)
EncVarInt(v) ==
  IF v < 128 THEN <<v>> ELSE <<128 + (v % 128)>> \o EncVarInt(v \div 128)

Bit(u, k) == (u \div Pow2(k)) % 2

BytesOfBitsN(bit(_), n) ==
  [i \in 1..n |-> LET term(j) == bit(8 * (n - i) + j) * Pow2(j)
                  IN SumTo(term, 0, 7)]

BytesOfBits(bit(_)) == BytesOfBitsN(bit, 8)

\* The bytes of the double or float with integer value v, 0 < |v| < 2^20.
EncIeee(v, nbytes, exp_bits, bias) ==
  LET a == IF v < 0 THEN -v ELSE v
      frac_bits == 8 * nbytes - 1 - exp_bits
      e == CHOOSE k \in 0..20 : Pow2(k) <= a /\ a < Pow2(k + 1)
      bit(k) == IF k = 8 * nbytes - 1 THEN (IF v < 0 THEN 1 ELSE 0)
                ELSE IF k >= frac_bits THEN Bit(e + bias, k - frac_bits)
                ELSE IF k >= frac_bits - e THEN Bit(a - Pow2(e), k - (frac_bits - e))
                ELSE 0
  IN IF v = 0 THEN Zeros(nbytes) ELSE BytesOfBitsN(bit, nbytes)

EncDouble(v) == EncIeee(v, 8, 11, 1023)

EncFloat(v) == EncIeee(v, 4, 8, 127)

S32Bytes(v) ==
  LET t == v \div 16777216
      r == v % 16777216
  IN <<t % 256, r \div 65536, (r \div 256) % 256, r % 256>>

U16Bytes(v) == <<v \div 256, v % 256>>

\* ((x & 0x3FFFFFF) << 38) | ((z & 0x3FFFFFF) << 12) | (y & 0xFFF)
EncPosition(x, y, z) ==
  LET bit(k) == IF k < 12 THEN Bit(y % 4096, k)
                ELSE IF k < 38 THEN Bit(z % 67108864, k - 12)
                ELSE Bit(x % 67108864, k - 38)
  IN BytesOfBits(bit)

\* ((cx & 0x3FFFFF) << 42) | ((cz & 0x3FFFFF) << 20) | (cy & 0xFFFFF)
EncSectionPosition(cx, cy, cz) ==
  LET bit(k) == IF k < 20 THEN Bit(cy % 1048576, k)
                ELSE IF k < 42 THEN Bit(cz % 4194304, k - 20)
                ELSE Bit(cx % 4194304, k - 42)
  IN BytesOfBits(bit)

\* One 64-bit word of a section: field j (of width bpb) holds fields[j + 1].
EncWord(fields, bpb) ==
  LET bit(k) == IF k \div bpb < Len(fields) /\ k \div bpb < 64 \div bpb
                THEN Bit(fields[(k \div bpb) + 1], k % bpb) ELSE 0
  IN BytesOfBits(bit)

Payload(p) ==
  LET full == EncVarInt(p.id) \o p.body
  IN IF p.slack < 0 THEN SubSeq(full, 1, Len(full) + p.slack)
     ELSE full \o Zeros(p.slack)

\* The frame of packet p when the connection is in compressed mode or not.
Frame(p, compressed) ==
  LET payload == Payload(p) IN
  IF ~compressed THEN EncVarInt(Len(payload)) \o payload
  ELSE IF p.z
       THEN LET dl == EncVarInt(Len(payload))
                d == Deflate(payload)
            IN EncVarInt(Len(dl) + Len(d)) \o dl \o d
       ELSE EncVarInt(1 + Len(payload)) \o <<0>> \o payload

(***************************************************************************)
(* World: the toroidal chunk cache.                                        *)
(*   chunks      <<i, j, n>> -> block id, where [i][j] indexes             *)
(*               World::chunks and n = chunk_y*4096 + y*256 + z*16 + x is  *)
(*               the position of blocks[y][z][x] of chunks[chunk_y] in the *)
(*               section's storage                                         *)
(*   infos       <<i, j>> -> [x, z, bitmask, loaded]                       *)
(*   meshes      <<i, j, chunk_y>> -> vertex_count                         *)
(*   queue       the first build_queue_count entries of build_queue        *)
(*   bad         names of the assertions that failed and of the accesses   *)
(*               outside a section's storage that happened                 *)
(*   freed       the meshes the last OnChunkUnload handed to FreeMesh      *)
(*   leaked      the mesh entries overwritten while they held geometry     *)
(*               that had not been handed to FreeMesh                      *)
(* A world value w is the record of the seven.                             *)
(***************************************************************************)
SectionCells == 65536
SubChunkCells == 4096

NoInfo == [x |-> 0, z |-> 0, bitmask |-> 0, loaded |-> FALSE]

\* The index without the "+ kChunkCacheSize" step: the C++ remainder alone.
GetChunkCacheIndex_m(v) == CRem(v, kChunkCacheSize)

GetChunkCacheIndex(v) ==
  CRem(CRem(v, kChunkCacheSize) + kChunkCacheSize, kChunkCacheSize)

Info(w, i, j) == Get(w.infos, <<i, j>>, NoInfo)

Block(w, i, j, n) == Get(w.chunks, <<i, j, n>>, 0)

CellIndex(chunk_y, y, z, x) == chunk_y * SubChunkCells + y * 256 + z * 16 + x

\* bitmask | (1 << k)
SetBit(mask, k) == IF Bit(mask, k) = 1 THEN mask ELSE mask + Pow2(k)

\* (float)x: the nearest value with a 24-bit significand, ties to even.
\* q is the weight of the last bit kept.
FloatExponent(a) ==
  CHOOSE e \in 0..8 : a \div Pow2(e) < 16777216
                       /\ (e = 0 \/ a \div Pow2(e - 1) >= 16777216)

RoundUp(m, r, q) == IF 2 * r > q \/ (2 * r = q /\ m % 2 = 1) THEN 1 ELSE 0

RoundToEven(a, q) == (a \div q + RoundUp(a \div q, a % q, q)) * q

FloatOfS32(x) ==
  IF x < 0 THEN -RoundToEven(-x, Pow2(FloatExponent(-x)))
  ELSE RoundToEven(x, Pow2(FloatExponent(x)))

\* (s32)std::floor(x / 16.0f): the division by 16 is exact in float
FloorDiv16f(x) == FloatOfS32(x) \div 16

(***************************************************************************)
(* ChunkBuildContext::GetNeighbors / IsBuildable                           *)
(***************************************************************************)
Neighbors(chunk_x, chunk_z) ==
  LET x_index == GetChunkCacheIndex(chunk_x)
      z_index == GetChunkCacheIndex(chunk_z)
  IN [section |-> <<z_index, x_index>>,
      east  |-> <<z_index, GetChunkCacheIndex(chunk_x + 1)>>,
      west  |-> <<z_index, GetChunkCacheIndex(chunk_x - 1)>>,
      north |-> <<GetChunkCacheIndex(chunk_z - 1), x_index>>,
      south |-> <<GetChunkCacheIndex(chunk_z + 1), x_index>>]

IsBuildable(w, ctx) ==
  /\ Info(w, ctx.east[1], ctx.east[2]).loaded
  /\ Info(w, ctx.west[1], ctx.west[2]).loaded
  /\ Info(w, ctx.north[1], ctx.north[2]).loaded
  /\ Info(w, ctx.south[1], ctx.south[2]).loaded

GetNeighbors(w, chunk_x, chunk_z) == IsBuildable(w, Neighbors(chunk_x, chunk_z))

(***************************************************************************)
(* GameState::BuildChunkMesh(ctx, chunk_x, chunk_y, chunk_z)               *)
(***************************************************************************)
\* What is read at position n >= 65536 of section [i][j]: the storage that
\* follows it in World.  First the next section's info pointer (two words;
\* ptr_hi is the upper one, which the allocator decides), then that
\* section's blocks; after the last section, chunk_infos.  The mesher only
\* tests what it reads there against 0, so a nonzero word reads as PtrWord.
PtrWord == 1
BeyondSection(w, s, n, ptr_hi) ==
  LET k == n - SectionCells
      last == s[1] = kChunkCacheSize - 1 /\ s[2] = kChunkCacheSize - 1
      nxt == IF s[2] = kChunkCacheSize - 1 THEN <<s[1] + 1, 0>>
             ELSE <<s[1], s[2] + 1>>
      inf == Info(w, (k \div 4) \div kChunkCacheSize, (k \div 4) % kChunkCacheSize)
      word(v) == IF v = 0 THEN 0 ELSE PtrWord
  IN IF ~last
     THEN (IF k = 0 THEN PtrWord ELSE IF k = 1 THEN ptr_hi
           ELSE Block(w, nxt[1], nxt[2], k - 2))
     ELSE (IF k % 4 = 0 THEN word(inf.x)
           ELSE IF k % 4 = 1 THEN word(inf.z)
           ELSE IF k % 4 = 2 THEN inf.bitmask
           ELSE IF inf.loaded THEN 1 ELSE 0)

\* section->chunks[cy].blocks[y][z][x] for cy in 0..16
SectionBlock(w, s, cy, y, z, x, ptr_hi) ==
  LET n == CellIndex(cy, y, z, x)
  IN IF n < SectionCells THEN Block(w, s[1], s[2], n)
     ELSE BeyondSection(w, s, n, ptr_hi)

\* bordered_chunk[Y*18*18 + Z*18 + X] after the seven copy loops; a later
\* loop overwrites an earlier one.
Bordered(w, ctx, chunk_y, Y, Z, X, ptr_hi) ==
  IF chunk_y > 0 /\ Y = 0 /\ Z < 16 /\ X < 16
  THEN SectionBlock(w, ctx.section, chunk_y - 1, 15, Z, X, ptr_hi)
  ELSE IF chunk_y < 16 /\ Y = 17 /\ Z < 16 /\ X < 16
  THEN SectionBlock(w, ctx.section, chunk_y + 1, 0, Z, X, ptr_hi)
  ELSE IF Y < 16 /\ Z = 0 /\ X < 16
  THEN SectionBlock(w, ctx.south, chunk_y, Y, 0, X, ptr_hi)
  ELSE IF Y < 16 /\ Z = 17 /\ X < 16
  THEN SectionBlock(w, ctx.north, chunk_y, Y, 15, X, ptr_hi)
  ELSE IF Y < 16 /\ Z < 16 /\ X = 17
  THEN SectionBlock(w, ctx.east, chunk_y, Y, Z, 0, ptr_hi)
  ELSE IF Y < 16 /\ Z < 16 /\ X = 0
  THEN SectionBlock(w, ctx.west, chunk_y, Y, Z, 15, ptr_hi)
  ELSE IF Y \in 1..16 /\ Z \in 1..16 /\ X \in 1..16
  THEN SectionBlock(w, ctx.section, chunk_y, Y - 1, Z - 1, X - 1, ptr_hi)
  ELSE 0

\* The six neighbours the mesher tests: above, below, north, south, east,
\* west, as offsets in (Y, Z, X).
FaceOffsets ==
  {<<1, 0, 0>>, <<-1, 0, 0>>, <<0, -1, 0>>, <<0, 1, 0>>, <<0, 0, 1>>, <<0, 0, -1>>}

\* Barriers drawn like any other block.
VisibleFaces_m(w, ctx, chunk_y, y, z, x, ptr_hi) ==
  IF Bordered(w, ctx, chunk_y, y + 1, z + 1, x + 1, ptr_hi) = 0 THEN {}
  ELSE {d \in FaceOffsets :
          Bordered(w, ctx, chunk_y, y + 1 + d[1], z + 1 + d[2], x + 1 + d[3],
                   ptr_hi) = 0}

\* Faces of the cell that holds blocks[y][z][x]: the mesher skips air and
\* barriers, and pushes 6 vertices per neighbour with id 0.
VisibleFaces(w, ctx, chunk_y, y, z, x, ptr_hi) ==
  LET bid == Bordered(w, ctx, chunk_y, y + 1, z + 1, x + 1, ptr_hi)
  IN IF bid = 0 \/ bid = BarrierId THEN {}
     ELSE {d \in FaceOffsets :
             Bordered(w, ctx, chunk_y, y + 1 + d[1], z + 1 + d[2], x + 1 + d[3],
                      ptr_hi) = 0}

\* The cells of sub-chunk chunk_y of section s that hold a block: the only
\* ones the mesher's loop does not skip.
SolidCells(w, s, chunk_y) ==
  {k[3] % SubChunkCells : k \in {kk \in DOMAIN w.chunks :
        kk[1] = s[1] /\ kk[2] = s[2] /\ kk[3] \div SubChunkCells = chunk_y}}

\* The faces pushed for sub-chunk chunk_y: pairs of a cell and an offset.
PushedFaces(w, ctx, chunk_y, ptr_hi) ==
  {cf \in SolidCells(w, ctx.section, chunk_y) \X FaceOffsets :
     cf[2] \in VisibleFaces(w, ctx, chunk_y, cf[1] \div 256, (cf[1] \div 16) % 16,
                            cf[1] % 16, ptr_hi)}

MeshVertexCount(w, ctx, chunk_y, ptr_hi) ==
  6 * Cardinality(PushedFaces(w, ctx, chunk_y, ptr_hi))

BuildChunkMesh(w, chunk_x, chunk_y, chunk_z, ptr_hi) ==
  LET ctx == Neighbors(chunk_x, chunk_z)
      key == <<ctx.section[1], ctx.section[2], chunk_y>>
  IN IF chunk_y \notin 0..15
     THEN [w EXCEPT !.bad = @ \cup {"mesh_outside_column"}]
     ELSE [w EXCEPT !.meshes =
             Put(@, key, MeshVertexCount(w, ctx, chunk_y, ptr_hi), 0),
                    !.leaked = IF Get(w.meshes, key, 0) > 0 THEN @ \cup {key} ELSE @]

\* GameState::BuildChunkMesh(ctx, chunk_x, chunk_z): every sub-chunk whose
\* presence bit is set.
RECURSIVE BuildColumnFrom(_, _, _, _, _)
BuildColumnFrom(w, chunk_x, chunk_z, chunk_y, ptr_hi) ==
  IF chunk_y >= 16 THEN w
  ELSE LET s == Neighbors(chunk_x, chunk_z).section
           w1 == IF Bit(Info(w, s[1], s[2]).bitmask, chunk_y) = 1
                 THEN BuildChunkMesh(w, chunk_x, chunk_y, chunk_z, ptr_hi)
                 ELSE w
       IN BuildColumnFrom(w1, chunk_x, chunk_z, chunk_y + 1, ptr_hi)

BuildColumnMesh(w, chunk_x, chunk_z, ptr_hi) ==
  BuildColumnFrom(w, chunk_x, chunk_z, 0, ptr_hi)

(***************************************************************************)
(* GameState::OnChunkLoad, OnChunkUnload, OnBlockChange and the build-queue *)
(* loop of GameState::Update, as functions of the world.                    *)
(***************************************************************************)
OnChunkLoad(w, chunk_x, chunk_z) ==
  LET s == <<GetChunkCacheIndex(chunk_z), GetChunkCacheIndex(chunk_x)>>
      inf == [Info(w, s[1], s[2]) EXCEPT !.loaded = TRUE]
  IN [w EXCEPT !.infos = Put(@, s, inf, NoInfo),
               !.queue = Append(@, <<chunk_x, chunk_z>>)]

RECURSIVE ClearMeshes(_, _, _)
ClearMeshes(m, s, chunk_y) ==
  IF chunk_y >= 16 THEN m
  ELSE ClearMeshes(Put(m, <<s[1], s[2], chunk_y>>, 0, 0), s, chunk_y + 1)

\* FreeMesh called on all 16 entries, whatever their vertex_count.
FreedMeshes_m(w, s) == {<<s[1], s[2], chunk_y>> : chunk_y \in 0..15}

\* The entries of slot s that renderer->FreeMesh is called on.
FreedMeshes(w, s) ==
  {<<s[1], s[2], chunk_y>> : chunk_y \in {cy \in 0..15 :
                               Get(w.meshes, <<s[1], s[2], cy>>, 0) > 0}}

OnChunkUnload(w, chunk_x, chunk_z) ==
  LET s == <<GetChunkCacheIndex(chunk_z), GetChunkCacheIndex(chunk_x)>>
      old == Info(w, s[1], s[2])
      w1 == [w EXCEPT !.infos = Put(@, s, [old EXCEPT !.loaded = FALSE], NoInfo)]
  IN IF old.x # chunk_x \/ old.z # chunk_z THEN [w1 EXCEPT !.freed = {}]
     ELSE [w1 EXCEPT !.meshes = ClearMeshes(@, s, 0),
                     !.freed = FreedMeshes(w, s)]

IsQueued(w, chunk_x, chunk_z) ==
  \E i \in 1..Len(w.queue) : w.queue[i] = <<chunk_x, chunk_z>>

\* world.chunks[GetChunkCacheIndex(chunk_z)][GetChunkCacheIndex(chunk_x)]
SectionSlot(chunk_x, chunk_z) ==
  <<GetChunkCacheIndex(chunk_z), GetChunkCacheIndex(chunk_x)>>

\* section->chunks[chunk_y].blocks[relative_y][relative_z][relative_x] = new_bid
StoreBlock(w, s, n, new_bid) ==
  IF n >= 0 /\ n < SectionCells
  THEN [w EXCEPT !.chunks = Put(@, <<s[1], s[2], n>>, new_bid, 0)]
  ELSE [w EXCEPT !.bad = @ \cup {"block_outside_column"}]

\* if (new_bid != 0) section_info->bitmask |= (1 << (y / 16))
MarkPresent(w, s, chunk_y, new_bid) ==
  IF new_bid = 0 THEN w
  ELSE IF chunk_y \in 0..31
  THEN [w EXCEPT !.infos =
          Put(@, s, [Info(w, s[1], s[2]) EXCEPT !.bitmask = SetBit(@, chunk_y)],
              NoInfo)]
  ELSE [w EXCEPT !.bad = @ \cup {"bitmask_shift"}]

\* assert(has_neighbors)
AssertNeighbors(w, chunk_x, chunk_z) ==
  IF GetNeighbors(w, chunk_x, chunk_z) THEN w
  ELSE [w EXCEPT !.bad = @ \cup {"assert_has_neighbors"}]

\* The rebuild without the test of is_queued.
RebuildUnlessQueued_m(w, chunk_x, chunk_y, chunk_z, ptr_hi) ==
  BuildChunkMesh(AssertNeighbors(w, chunk_x, chunk_z), chunk_x, chunk_y,
                 chunk_z, ptr_hi)

\* if (!is_queued) { ... BuildChunkMesh(&ctx, chunk_x, chunk_y, chunk_z); }
RebuildUnlessQueued(w, chunk_x, chunk_y, chunk_z, ptr_hi) ==
  IF IsQueued(w, chunk_x, chunk_z) THEN w
  ELSE BuildChunkMesh(AssertNeighbors(w, chunk_x, chunk_z), chunk_x, chunk_y,
                      chunk_z, ptr_hi)

\* x % 16, plus 16 when negative
Relative(v) == IF CRem(v, 16) < 0 THEN CRem(v, 16) + 16 ELSE CRem(v, 16)

\* The block change once the column, the sub-chunk and the cell n are known.
BlockChangeAt(w, chunk_x, chunk_y, chunk_z, n, new_bid, ptr_hi) ==
  RebuildUnlessQueued(
    MarkPresent(StoreBlock(w, SectionSlot(chunk_x, chunk_z), n, new_bid),
                SectionSlot(chunk_x, chunk_z), chunk_y, new_bid),
    chunk_x, chunk_y, chunk_z, ptr_hi)

OnBlockChange(w, x, y, z, new_bid, ptr_hi) ==
  BlockChangeAt(w, FloorDiv16f(x), CDiv(y, 16), FloorDiv16f(z),
                CellIndex(CDiv(y, 16), CRem(y, 16), Relative(z), Relative(x)),
                new_bid, ptr_hi)

\* The count decremented without the last entry copied into the hole.
RemoveAt_m(q, i) == SubSeq(q, 1, Len(q) - 1)

\* queue[i] = queue[--count]
RemoveAt(q, i) ==
  LET last == q[Len(q)]
      cut == SubSeq(q, 1, Len(q) - 1)
  IN IF i = Len(q) THEN cut ELSE [cut EXCEPT ![i] = last]

RECURSIVE ProcessBuildQueue(_, _, _)
ProcessBuildQueue(w, i, ptr_hi) ==
  IF i > Len(w.queue) THEN w
  ELSE LET c == w.queue[i]
       IN IF GetNeighbors(w, c[1], c[2])
          THEN LET w1 == BuildColumnMesh(w, c[1], c[2], ptr_hi)
               IN ProcessBuildQueue([w1 EXCEPT !.queue = RemoveAt(@, i)], i, ptr_hi)
          ELSE ProcessBuildQueue(w, i + 1, ptr_hi)

\* GameState::OnPlayerPositionAndLook: position + (0, 1.8, 0), yaw + 90 and
\* -pitch.  The camera keeps the position in tenths of a block and the two
\* angles in degrees, as the arguments given to Radians.
OnPlayerPositionAndLook(position, yaw, pitch) ==
  [position |-> <<10 * position[1], 10 * position[2] + 18, 10 * position[3]>>,
   yaw |-> yaw + 90, pitch |-> -pitch]

(***************************************************************************)
(* PacketInterpreter::Interpret.  A decoder value d is the record           *)
(*   [rb, inflate, compression, outbox, camera, w, log]                     *)
(* of the connection's read buffer, the inflate buffer, the compression     *)
(* flag, the messages sent so far, the camera, the world and the list of    *)
(* the frames dispatched so far.  g is the value an uninitialised local     *)
(* holds when the read that should set it fails; ptr_hi as in the mesher.   *)
(* A value that is used several times is handed on as an operator argument. *)
(***************************************************************************)
IdSetCompression == 3
IdChat == 14
IdKeepAlive == 31
IdPlayerPositionAndLook == 52
IdBlockChange == 11
IdMultiBlockChange == 59
IdChunkData == 32

HandledIds == {IdSetCompression, IdChat, IdKeepAlive, IdPlayerPositionAndLook,
               IdBlockChange, IdMultiBlockChange, IdChunkData}

\* A run of reads one after the other: fmt names the reads, the result
\* holds the values read, whether each read succeeded, and the cursor.
ReadStr16Of(l) == ReadRawString(l.rb, l.value)
ReadStr16(b) == ReadStr16Of(ReadU16(b))

\* for (j < count) ReadU64(): a read that fails leaves the cursor in place
SkipLongs(cur, count) ==
  [cur EXCEPT !.read_offset =
     (cur.read_offset + 8 * Min(count, GetReadAmount(cur) \div 8)) % cur.size]

ReadLongs32Of(c) ==
  [ok |-> c.ok, value |-> U32OfBytes(c.value),
   rb |-> SkipLongs(c.rb, U32OfBytes(c.value))]
ReadLongs32(b) == ReadLongs32Of(ReadU32(b))

ReadField(b, tag) ==
  CASE tag = "varint" -> ReadVarInt(b)
    [] tag = "u8" -> ReadU8(b)
    [] tag = "u16" -> ReadU16(b)
    [] tag = "u32" -> ReadU32(b)
    [] tag = "f32" -> ReadFloat(b)
    [] tag = "u64" -> ReadU64(b)
    [] tag = "f64" -> ReadDouble(b)
    [] tag = "str16" -> ReadStr16(b)
    [] tag = "longs32" -> ReadLongs32(b)

AddField(st, one) ==
  [rb |-> one.rb, v |-> Append(st.v, one.value), ok |-> Append(st.ok, one.ok)]

RECURSIVE ReadFieldsFrom(_, _)
ReadFieldsFrom(st, fmt) ==
  IF Len(st.v) >= Len(fmt) THEN st
  ELSE ReadFieldsFrom(AddField(st, ReadField(st.rb, fmt[Len(st.v) + 1])), fmt)

ReadFields(b, fmt) == ReadFieldsFrom([rb |-> b, v |-> << >>, ok |-> << >>], fmt)

\* The break without the revert.
Revert_m(b, offset_snapshot) == b

\* rb->read_offset = offset_snapshot
Revert(b, offset_snapshot) == [b EXCEPT !.read_offset = offset_snapshot]

\* The cursor left where the handler stopped reading.
ForcedJump_m(b, target_offset) == b

\* rb->read_offset = target_offset, after the handler
ForcedJump(b, target_offset) == [b EXCEPT !.read_offset = target_offset]

\* rb->read_offset = target_offset, once the payload is inflated
SkipCompressed(b, target_offset) == [b EXCEPT !.read_offset = target_offset]

\* The source handed to mz_uncompress: source_len bytes starting at
\* rb->data + rb->read_offset, without wrapping; -1 stands for a byte that
\* lies after the buffer's storage.
InflateSource(b, source_len) ==
  [i \in 1..Min(source_len, b.size - b.read_offset + 1) |->
     IF b.read_offset + i - 1 < b.size THEN ByteAt(b, b.read_offset + i - 1) ELSE -1]

\* Lines 19-53: the frame at the cursor.  complete = FALSE is one of the
\* two breaks; otherwise rb is the read buffer after the header, cur the
\* buffer the handler reads from, after the packet id.
FrameId(rb, pkt_size, target_offset, inflated, idr, bad0) ==
  [complete |-> TRUE, rb |-> rb, pkt_size |-> pkt_size,
   target_offset |-> target_offset, inflated |-> inflated,
   cur |-> idr.rb, pkt_id |-> idr.value,
   bad |-> bad0 \cup (IF ~idr.ok THEN {"assert_id_read"} ELSE {})]

FrameInflated(d, rb, pkt_size, target_offset, payload_size, z) ==
  FrameId(SkipCompressed(rb, target_offset), pkt_size, target_offset, TRUE,
          ReadVarInt([d.inflate EXCEPT !.data = z.out, !.read_offset = 0,
                                       !.write_offset = 0]),
          (IF ~z.ok THEN {"assert_mz_ok"} ELSE {})
            \cup (IF rb.read_offset + payload_size > rb.size
                  THEN {"inflate_source_outside_buffer"} ELSE {}))

FramePayloadSized(d, rb, pkt_size, target_offset, payload_size) ==
  IF payload_size > 0
  THEN FrameInflated(d, rb, pkt_size, target_offset, payload_size,
                     mz_uncompress(InflateSource(rb, payload_size)))
  ELSE FrameId(rb, pkt_size, target_offset, FALSE, ReadVarInt(rb), {})

FrameCompressed(d, pkt_size, target_offset, ps, g) ==
  FramePayloadSized(d, ps.rb, pkt_size, target_offset,
                    IF ps.ok THEN ps.value ELSE g)

\* The frame dispatched without the test that all its bytes have arrived.
FrameSized_m(d, l, g) ==
  IF ~l.ok THEN [complete |-> FALSE, rb |-> l.rb]
  ELSE IF d.compression
  THEN FrameCompressed(d, l.value, (l.rb.read_offset + l.value) % l.rb.size,
                       ReadVarInt(l.rb), g)
  ELSE FrameId(l.rb, l.value, (l.rb.read_offset + l.value) % l.rb.size, FALSE,
               ReadVarInt(l.rb), {})

FrameSized(d, l, g) ==
  IF ~l.ok THEN [complete |-> FALSE, rb |-> l.rb]
  ELSE IF GetReadAmount(l.rb) < l.value
  THEN [complete |-> FALSE, rb |-> Revert(l.rb, d.rb.read_offset)]
  ELSE IF d.compression
  THEN FrameCompressed(d, l.value, (l.rb.read_offset + l.value) % l.rb.size,
                       ReadVarInt(l.rb), g)
  ELSE FrameId(l.rb, l.value, (l.rb.read_offset + l.value) % l.rb.size, FALSE,
               ReadVarInt(l.rb), {})

FrameAt(d, g) == FrameSized(d, ReadVarInt(d.rb), g)

\* What a handler leaves behind.
Handled(d, cur) ==
  [cur |-> cur, compression |-> d.compression, outbox |-> d.outbox,
   camera |-> d.camera, w |-> d.w]

\* The handler without the assignment to the flag.
HandleSetCompression_m(d, cur, g, ptr_hi) == Handled(d, cur)

HandleSetCompression(d, cur, g, ptr_hi) ==
  [Handled(d, cur) EXCEPT !.compression = TRUE]

HandleChat(d, cur, g, ptr_hi) ==
  Handled(d, ReadString(cur, StringCapacity).rb)

\* The id read, and no echo.
KeepAliveRead_m(d, r) == Handled(d, r.rb)

KeepAliveRead(d, r) ==
  [Handled(d, r.rb) EXCEPT
     !.outbox = Append(@, [kind |-> "keep_alive", id |-> r.v[1]])]

HandleKeepAlive(d, cur, g, ptr_hi) == KeepAliveRead(d, ReadFields(cur, <<"u64">>))

\* x, y, z, yaw, pitch, flags, teleport_id
PositionAndLookFormat == <<"f64", "f64", "f64", "f32", "f32", "u8", "varint">>

\* The confirm sent with the flags byte in place of the teleport id.
PositionAndLookRead_m(d, r, g) ==
  [Handled(d, r.rb) EXCEPT
     !.outbox = Append(@, [kind |-> "teleport_confirm", id |-> r.v[6]])]

PositionAndLookRead(d, r, g) ==
  [Handled(d, r.rb) EXCEPT
     !.outbox = Append(@, [kind |-> "teleport_confirm",
                           id |-> IF r.ok[7] THEN r.v[7] ELSE g])]

HandlePlayerPositionAndLook(d, cur, g, ptr_hi) ==
  PositionAndLookRead(d, ReadFields(cur, PositionAndLookFormat), g)

\* The field taken as it is, without the subtraction.
SignExtend_m(v, width) == v

\* A 26-bit, 22-bit or 12-bit field as two's complement.
SignExtend(v, width) == IF v >= Pow2(width - 1) THEN v - Pow2(width) ELSE v

\* Lines 93-105: x, y and z of the u64 position_data, held as 8 bytes.
DecodePosition(position_data) ==
  <<SignExtend(U64Field(position_data, 38, 26), 26),
    SignExtend(U64Field(position_data, 0, 12), 12),
    SignExtend(U64Field(position_data, 12, 26), 26)>>

BlockChangeRead(d, r, g, ptr_hi) ==
  [Handled(d, r.rb) EXCEPT
     !.w = OnBlockChange(@, DecodePosition(r.v[1])[1], DecodePosition(r.v[1])[2],
                         DecodePosition(r.v[1])[3],
                         IF r.ok[2] THEN r.v[2] ELSE g, ptr_hi)]

HandleBlockChange(d, cur, g, ptr_hi) ==
  BlockChangeRead(d, ReadFields(cur, <<"u64", "varint">>), g, ptr_hi)

\* The loop over the entries of a multi block change: st holds the world,
\* the cursor and the loop index i.  An entry whose VarInt cannot be read
\* leaves data unset and the cursor in place, and so do all the entries
\* after it: they repeat the same block change.
MultiBlockEntry(st, r, data, count, chunk_x, chunk_y, chunk_z, ptr_hi) ==
  [w |-> OnBlockChange(st.w, chunk_x * 16 + ((data \div 256) % 16),
                       chunk_y * 16 + (data % 16),
                       chunk_z * 16 + ((data \div 16) % 16),
                       data \div 4096, ptr_hi),
   cur |-> r.rb,
   i |-> IF r.ok THEN st.i + 1 ELSE count]

MultiBlockRead(st, r, count, chunk_x, chunk_y, chunk_z, g, ptr_hi) ==
  MultiBlockEntry(st, r, IF r.ok THEN r.value ELSE g, count, chunk_x, chunk_y,
                  chunk_z, ptr_hi)

RECURSIVE MultiBlockEntries(_, _, _, _, _, _, _)
MultiBlockEntries(st, count, chunk_x, chunk_y, chunk_z, g, ptr_hi) ==
  IF st.i >= count THEN st
  ELSE MultiBlockEntries(MultiBlockRead(st, ReadVarInt(st.cur), count, chunk_x,
                                        chunk_y, chunk_z, g, ptr_hi),
                         count, chunk_x, chunk_y, chunk_z, g, ptr_hi)

MultiBlockDone(d, r) == [Handled(d, r.cur) EXCEPT !.w = r.w]

\* xzy, inverse, count
MultiBlockHeader(d, h, g, ptr_hi) ==
  MultiBlockDone(d, MultiBlockEntries([w |-> d.w, cur |-> h.rb, i |-> 0],
                                      IF h.ok[3] THEN h.v[3] ELSE g,
                                      SignExtend(U64Field(h.v[1], 42, 22), 22),
                                      U64Field(h.v[1], 0, 20),
                                      SignExtend(U64Field(h.v[1], 20, 22), 22),
                                      g, ptr_hi))

HandleMultiBlockChange(d, cur, g, ptr_hi) ==
  MultiBlockHeader(d, ReadFields(cur, <<"u64", "u8", "varint">>), g, ptr_hi)

(***************************************************************************)
(* The chunk-data handler (packet id 0x20).                                 *)
(***************************************************************************)
RECURSIVE SkipVarInts(_, _)
SkipVarIntsAfter(r, count) == IF r.ok THEN SkipVarInts(r.rb, count - 1) ELSE r.rb
SkipVarInts(cur, count) ==
  IF count <= 0 THEN cur ELSE SkipVarIntsAfter(ReadVarInt(cur), count)

\* The loop that reads the palette: st holds the cursor and the entries
\* read.  An entry that cannot be read is whatever palette_data held, and so
\* are the entries after it: they are left out of `entries`.
PaletteEntry(st, r, count) ==
  [cur |-> r.rb,
   entries |-> IF r.ok THEN Append(st.entries, r.value) ELSE st.entries,
   i |-> IF r.ok THEN st.i + 1 ELSE count]

RECURSIVE PaletteEntries(_, _)
PaletteEntries(st, count) ==
  IF st.i >= count THEN st
  ELSE PaletteEntries(PaletteEntry(st, ReadVarInt(st.cur), count), count)

ReadPalette(cur, count) == PaletteEntries([cur |-> cur, entries |-> << >>, i |-> 0], count)

\* Several cells written at once; upd maps keys to the ids written.
PutMany(f, upd) ==
  LET keep == {k \in DOMAIN f : k \notin DOMAIN upd}
      nz == {k \in DOMAIN upd : upd[k] # 0}
  IN [k \in keep \cup nz |-> IF k \in nz THEN upd[k] ELSE f[k]]

\* Widest field whose value is kept exactly.
FieldWidthCap == 30

\* The id stored for one field: through the palette when there is one.
\* An index that no palette entry was read for gives what lies there (g).
PaletteLookup(palette_index, has_palette, entries, g) ==
  IF ~has_palette THEN palette_index
  ELSE IF palette_index < Len(entries) THEN entries[palette_index + 1]
  ELSE g

\* The fields taken at byte boundaries instead of every bpb bits.
FieldId_m(word, j, bpb, has_palette, entries, g) ==
  PaletteLookup(U64Field(word, j * 8, Min(bpb, FieldWidthCap)), has_palette,
                entries, g)

FieldId(word, j, bpb, has_palette, entries, g) ==
  PaletteLookup(U64Field(word, j * bpb, Min(bpb, FieldWidthCap)), has_palette,
                entries, g)

\* One data word written to the cells at..at+n-1 of section s.
SectionWordWrite(w, word, s, at, n, bpb, has_palette, entries, g) ==
  [w EXCEPT
     !.chunks = PutMany(@, [k \in {<<s[1], s[2], c>> :
                                     c \in at..(Min(at + n, SectionCells) - 1)} |->
                              FieldId(word, (k[3] - at) % (64 \div bpb), bpb,
                                      has_palette, entries, g)]),
     !.bad = @ \cup (IF at + n > SectionCells THEN {"block_outside_column"}
                     ELSE {})]

\* The loop over the data array of one section: st holds the world, the
\* cursor, the next cell written (block_index from cell `at` on) and the
\* loop index i.  A word that cannot be read is 0 and leaves the cursor in
\* place, and so do all the words after it.
SectionWord(st, r, s, words, bpb, has_palette, entries, g) ==
  [w |-> SectionWordWrite(st.w, r.value, s, st.at,
                          IF r.ok THEN 64 \div bpb
                          ELSE Min(words - st.i, SectionCells) * (64 \div bpb),
                          bpb, has_palette, entries, g),
   cur |-> r.rb,
   at |-> st.at + 64 \div bpb,
   i |-> IF r.ok THEN st.i + 1 ELSE words]

RECURSIVE SectionWords(_, _, _, _, _, _, _)
SectionWords(st, s, words, bpb, has_palette, entries, g) ==
  IF st.i >= words \/ 64 \div bpb = 0 THEN st
  ELSE SectionWords(SectionWord(st, ReadU64(st.cur), s, words, bpb, has_palette,
                                entries, g),
                    s, words, bpb, has_palette, entries, g)

\* section->x = chunk_x; section->z = chunk_z
SetOccupant(w, s, chunk_x, chunk_z) ==
  [w EXCEPT !.infos =
     Put(@, s, [Info(w, s[1], s[2]) EXCEPT !.x = chunk_x, !.z = chunk_z], NoInfo)]

\* game->chunks[GetChunkCacheIndex(chunk_x)][GetChunkCacheIndex(chunk_z)]
ChunkDataSlot(chunk_x, chunk_z) ==
  <<GetChunkCacheIndex(chunk_x), GetChunkCacheIndex(chunk_z)>>

SectionData(w, pal, dal, bpb, has_palette, chunk_x, chunk_y, chunk_z, g) ==
  SectionWords([w |-> SetOccupant(w, ChunkDataSlot(chunk_x, chunk_z), chunk_x,
                                  chunk_z),
                cur |-> dal.rb, at |-> chunk_y * SubChunkCells, i |-> 0],
               ChunkDataSlot(chunk_x, chunk_z), IF dal.ok THEN dal.value ELSE g,
               bpb, has_palette, pal.entries, g)

SectionPalette(w, pal, bpb, has_palette, chunk_x, chunk_y, chunk_z, g) ==
  SectionData(w, pal, ReadVarInt(pal.cur), bpb, has_palette, chunk_x, chunk_y,
              chunk_z, g)

ReadPaletteOf(pl, g) == ReadPalette(pl.rb, IF pl.ok THEN pl.value ELSE g)

SectionBpb(w, cur, bpb, chunk_x, chunk_y, chunk_z, g) ==
  IF bpb < 9
  THEN SectionPalette(w, ReadPaletteOf(ReadVarInt(cur), g), bpb, TRUE, chunk_x,
                      chunk_y, chunk_z, g)
  ELSE SectionPalette(w, [cur |-> cur, entries |-> << >>], bpb, FALSE, chunk_x,
                      chunk_y, chunk_z, g)

\* block_count, bpb
SectionHeader(w, h, chunk_x, chunk_y, chunk_z, g) ==
  SectionBpb(w, h.rb, IF h.v[2] < 4 THEN 4 ELSE h.v[2], chunk_x, chunk_y, chunk_z, g)

\* One bit-packed section (lines 199-243).
ChunkDataSection(w, cur, chunk_x, chunk_y, chunk_z, g) ==
  SectionHeader(w, ReadFields(cur, <<"u16", "u8">>), chunk_x, chunk_y, chunk_z, g)

\* The least chunk_y >= y whose bit is set in the bitmask, 16 when none:
\* the loop `for (chunk_y < 16)` skips the others.
NextSection(bitmask, y) ==
  CHOOSE n \in y..16 :
    /\ n = 16 \/ Bit(bitmask, n) = 1
    /\ \A m \in y..(n - 1) : Bit(bitmask, m) = 0

ChunkDataSectionDone(r, chunk_y, bitmask) ==
  [w |-> r.w, cur |-> r.cur, chunk_y |-> NextSection(bitmask, chunk_y + 1)]

\* The loop over the sections: st holds the world, the cursor and chunk_y.
RECURSIVE ChunkDataSections(_, _, _, _, _)
ChunkDataSections(st, chunk_x, chunk_z, bitmask, g) ==
  IF st.chunk_y >= 16 THEN st
  ELSE ChunkDataSections(
         ChunkDataSectionDone(ChunkDataSection(st.w, st.cur, chunk_x, st.chunk_y,
                                               chunk_z, g),
                              st.chunk_y, bitmask),
         chunk_x, chunk_z, bitmask, g)

\* chunk_x, chunk_z, is_full, bitmask, the compound tag, its name, two long
\* arrays (tag, name, longs), the end tag
ChunkDataFormat ==
  <<"u32", "u32", "u8", "varint", "u8", "str16", "u8", "str16", "longs32",
    "u8", "str16", "longs32", "u8">>

ChunkDataAsserts(h) ==
  (IF h.v[5] # 10 \/ h.v[7] # 12 \/ h.v[10] # 12 THEN {"assert_nbt_type"} ELSE {})
    \cup (IF h.v[13] # 0 THEN {"assert_end_tag"} ELSE {})

\* The block entity count read where the sections ended, without the jump.
ChunkDataDone_m(d, h, new_offset, sec) ==
  [Handled(d, ReadVarInt(sec.cur).rb) EXCEPT
     !.w = [sec.w EXCEPT !.bad = @ \cup ChunkDataAsserts(h)]]

\* rb->read_offset = new_offset, then the block entity count
ChunkDataDone(d, h, new_offset, sec) ==
  [Handled(d, ReadVarInt([sec.cur EXCEPT !.read_offset = new_offset]).rb) EXCEPT
     !.w = [sec.w EXCEPT !.bad = @ \cup ChunkDataAsserts(h)]]

ChunkDataBitmask(h, g) == IF h.ok[4] THEN h.v[4] ELSE g

ChunkDataSize(d, h, cur, data_size, g) ==
  ChunkDataDone(d, h, (cur.read_offset + data_size) % cur.size,
                IF data_size > 0
                THEN ChunkDataSections([w |-> d.w, cur |-> cur,
                                        chunk_y |-> NextSection(ChunkDataBitmask(h, g), 0)],
                                       S32OfBytes(h.v[1]), S32OfBytes(h.v[2]),
                                       ChunkDataBitmask(h, g), g)
                ELSE [w |-> d.w, cur |-> cur])

ChunkDataSized(d, h, ds, g) ==
  ChunkDataSize(d, h, ds.rb, IF ds.ok THEN ds.value ELSE g, g)

SkipBiomesOf(bl, g) == SkipVarInts(bl.rb, IF bl.ok THEN bl.value ELSE g)

ChunkDataHeader(d, h, g) ==
  ChunkDataSized(d, h,
                 ReadVarInt(IF h.v[3] # 0 THEN SkipBiomesOf(ReadVarInt(h.rb), g)
                            ELSE h.rb),
                 g)

HandleChunkData(d, cur, g, ptr_hi) ==
  ChunkDataHeader(d, ReadFields(cur, ChunkDataFormat), g)

\* The final else missing: an unknown id falls into the keep-alive branch.
HandleUnknown_m(d, cur, g, ptr_hi) == HandleKeepAlive(d, cur, g, ptr_hi)

HandleUnknown(d, cur, g, ptr_hi) == Handled(d, cur)

\* The if / else-if chain of lines 55-268.
Dispatch(d, pkt_id, cur, g, ptr_hi) ==
  IF pkt_id = IdSetCompression THEN HandleSetCompression(d, cur, g, ptr_hi)
  ELSE IF pkt_id = IdChat THEN HandleChat(d, cur, g, ptr_hi)
  ELSE IF pkt_id = IdKeepAlive THEN HandleKeepAlive(d, cur, g, ptr_hi)
  ELSE IF pkt_id = IdPlayerPositionAndLook
  THEN HandlePlayerPositionAndLook(d, cur, g, ptr_hi)
  ELSE IF pkt_id = IdBlockChange THEN HandleBlockChange(d, cur, g, ptr_hi)
  ELSE IF pkt_id = IdMultiBlockChange THEN HandleMultiBlockChange(d, cur, g, ptr_hi)
  ELSE IF pkt_id = IdChunkData THEN HandleChunkData(d, cur, g, ptr_hi)
  ELSE HandleUnknown(d, cur, g, ptr_hi)

\* The loop body run once: the loop condition never holds.
EndOfIteration_m(d, f, h, rb) ==
  [d |-> [rb |-> rb,
          inflate |-> IF f.inflated THEN ForcedJump(h.cur, f.target_offset)
                      ELSE d.inflate,
          compression |-> h.compression, outbox |-> h.outbox, camera |-> h.camera,
          w |-> [h.w EXCEPT !.bad = @ \cup f.bad],
          log |-> Append(d.log, [id |-> f.pkt_id, size |-> f.pkt_size,
                                 inflated |-> f.inflated])],
   running |-> FALSE]

\* Lines 270-275: whatever the handler read, the frame ends at
\* target_offset; the loop goes on while read_offset != write_offset.
EndOfIteration(d, f, h, rb) ==
  [d |-> [rb |-> rb,
          inflate |-> IF f.inflated THEN ForcedJump(h.cur, f.target_offset)
                      ELSE d.inflate,
          compression |-> h.compression, outbox |-> h.outbox, camera |-> h.camera,
          w |-> [h.w EXCEPT !.bad = @ \cup f.bad],
          log |-> Append(d.log, [id |-> f.pkt_id, size |-> f.pkt_size,
                                 inflated |-> f.inflated])],
   running |-> rb.read_offset # rb.write_offset]

Dispatched(d, f, h) ==
  EndOfIteration(d, f, h, IF f.inflated THEN f.rb
                          ELSE ForcedJump(h.cur, f.target_offset))

\* One iteration of the do-while loop on the frame f = FrameAt(d, g).
IterationOn(d, f, g, ptr_hi) ==
  IF ~f.complete THEN [d |-> [d EXCEPT !.rb = f.rb], running |-> FALSE]
  ELSE Dispatched(d, f, Dispatch(d, f.pkt_id, f.cur, g, ptr_hi))

Iteration(d, g, ptr_hi) == IterationOn(d, FrameAt(d, g), g, ptr_hi)

\* The whole do-while loop of one call of Interpret, from the result r of
\* its first iteration.
RECURSIVE InterpretFrom(_, _, _)
InterpretFrom(r, g, ptr_hi) ==
  IF ~r.running THEN r.d ELSE InterpretFrom(Iteration(r.d, g, ptr_hi), g, ptr_hi)

Interpret(d, g, ptr_hi) == InterpretFrom(Iteration(d, g, ptr_hi), g, ptr_hi)

(***************************************************************************)
(* State.                                                                  *)
(***************************************************************************)
VARIABLES
  read_buffer,     \* Connection::read_buffer
  inflate_buffer,  \* PacketInterpreter::inflate_buffer
  compression,     \* PacketInterpreter::compression
  pc,              \* "idle", or "interp" inside the loop of Interpret
  outbox,          \* the SendKeepAlive / SendTeleportConfirm calls made
  camera,          \* GameState::camera
  chunks,          \* World::chunks
  chunk_infos,     \* World::chunk_infos
  meshes,          \* World::meshes
  build_queue,     \* World::build_queue[0 .. build_queue_count)
  bad,             \* failed assertions and accesses outside storage
  freed,           \* history: the meshes the last OnChunkUnload freed
  leaked,          \* history: mesh entries overwritten without FreeMesh
  dispatched,      \* history: the frames dispatched, [id, size]
  wire,            \* bytes sent by the server, not yet received
  sent,            \* history: the packets the server has sent
  last_op,         \* history: the last World operation called and its arguments
  edits,           \* history: number of direct OnBlockChange calls
  probe            \* input and result of a function applied on its own

vars == <<read_buffer, inflate_buffer, compression, pc, outbox, camera, chunks,
          chunk_infos, meshes, build_queue, bad, freed, leaked, dispatched, wire,
          sent,
          last_op, edits, probe>>

decoderVars == <<read_buffer, inflate_buffer, compression, pc, outbox, dispatched>>
worldVars == <<chunks, chunk_infos, meshes, build_queue, bad, freed, leaked>>
serverVars == <<wire, sent>>

World == [chunks |-> chunks, infos |-> chunk_infos, meshes |-> meshes,
          queue |-> build_queue, bad |-> bad, freed |-> freed, leaked |-> leaked]

Decoder == [rb |-> read_buffer, inflate |-> inflate_buffer,
            compression |-> compression, outbox |-> outbox, camera |-> camera,
            w |-> World, log |-> dispatched]

SetWorld(w) ==
  /\ chunks' = w.chunks
  /\ chunk_infos' = w.infos
  /\ meshes' = w.meshes
  /\ build_queue' = w.queue
  /\ bad' = w.bad
  /\ freed' = w.freed
  /\ leaked' = w.leaked

SetDecoder(d) ==
  /\ read_buffer' = d.rb
  /\ inflate_buffer' = d.inflate
  /\ compression' = d.compression
  /\ outbox' = d.outbox
  /\ camera' = d.camera
  /\ dispatched' = d.log
  /\ SetWorld(d.w)

NoCamera == [position |-> <<0, 0, 0>>, yaw |-> 0, pitch |-> 0]
NoProbe == [fn |-> "none", in |-> 0, out |-> 0, done |-> FALSE]
NoOp == [op |-> "none", args |-> << >>]

EmptyWorld == [chunks |-> EmptyMap, infos |-> EmptyMap, meshes |-> EmptyMap,
               queue |-> << >>, bad |-> {}, freed |-> {}, leaked |-> {}]

\* The decoder and the world after construction, reading from buffer rb.
NewDecoder(rb) ==
  [rb |-> rb,
   inflate |-> [data |-> << >>, read_offset |-> 0, write_offset |-> 0,
                size |-> InflateSize],
   compression |-> FALSE, outbox |-> << >>, camera |-> NoCamera,
   w |-> EmptyWorld, log |-> << >>]

\* PacketInterpreter::PacketInterpreter and GameState::GameState: the flag
\* is off, the buffers are empty, every vertex count is 0; the world lives
\* in zeroed arena memory.
InitProgram ==
  /\ read_buffer = [data |-> Zeros(RbSize), read_offset |-> 0, write_offset |-> 0,
                    size |-> RbSize]
  /\ inflate_buffer = [data |-> << >>, read_offset |-> 0, write_offset |-> 0,
                       size |-> InflateSize]
  /\ compression = FALSE
  /\ pc = "idle"
  /\ outbox = << >>
  /\ camera = NoCamera
  /\ chunks = EmptyMap
  /\ chunk_infos = EmptyMap
  /\ meshes = EmptyMap
  /\ build_queue = << >>
  /\ bad = {}
  /\ freed = {}
  /\ leaked = {}
  /\ dispatched = << >>
  /\ wire = << >>
  /\ sent = << >>
  /\ last_op = NoOp
  /\ edits = 0

Init ==
  /\ InitProgram
  /\ probe = NoProbe

(***************************************************************************)
(* The packets the server sends in the model.                              *)
(***************************************************************************)
Packet(kind, id, body, slack, z, arg) ==
  [kind |-> kind, id |-> id, body |-> body, slack |-> slack, z |-> z, arg |-> arg]

PktSetCompression == Packet("compress", IdSetCompression, EncVarInt(64), 0, FALSE, 64)

PktChat == Packet("chat", IdChat, EncVarInt(2) \o <<104, 105>>, 0, FALSE, <<104, 105>>)

PktKeepAlive(id, slack, z) == Packet("keep_alive", IdKeepAlive, id, slack, z, id)

PktPlayerPositionAndLook(x, y, z, yaw, pitch, teleport_id) ==
  Packet("pos_look", IdPlayerPositionAndLook,
         EncDouble(x) \o EncDouble(y) \o EncDouble(z) \o EncFloat(yaw)
           \o EncFloat(pitch) \o <<0>> \o EncVarInt(teleport_id),
         0, FALSE,
         [position |-> <<x, y, z>>, yaw |-> yaw, pitch |-> pitch,
          teleport_id |-> teleport_id])

PktBlockChange(x, y, z, new_bid) ==
  Packet("block_change", IdBlockChange, EncPosition(x, y, z) \o EncVarInt(new_bid),
         0, FALSE, <<x, y, z, new_bid>>)

\* entries: <<new_bid, relative_x, relative_y, relative_z>>
EncMultiEntry(e) == EncVarInt(e[1] * 4096 + e[2] * 256 + e[4] * 16 + e[3])

PktMultiBlockChange(cx, cy, cz, entries) ==
  Packet("multi_block_change", IdMultiBlockChange,
         EncSectionPosition(cx, cy, cz) \o <<0>> \o EncVarInt(Len(entries))
           \o Concat([i \in 1..Len(entries) |-> EncMultiEntry(entries[i])]),
         0, FALSE, <<cx, cy, cz, entries>>)

EncLongArray(name) == <<12>> \o U16Bytes(Len(name)) \o name \o <<0, 0, 0, 0>>

EncHeightmaps == <<10, 0, 0>> \o EncLongArray(<<77>>) \o EncLongArray(<<87>>) \o <<0>>

\* section: [bpb, palette, words], a word being the sequence of its fields
EncSection(sec) ==
  U16Bytes(1) \o <<sec.bpb>>
    \o (IF sec.bpb < 9
        THEN EncVarInt(Len(sec.palette))
               \o Concat([i \in 1..Len(sec.palette) |-> EncVarInt(sec.palette[i])])
        ELSE << >>)
    \o EncVarInt(Len(sec.words))
    \o Concat([i \in 1..Len(sec.words) |-> EncWord(sec.words[i], sec.bpb)])

PktChunkData(cx, cz, is_full, bitmask, sections, surplus) ==
  LET data == Concat([i \in 1..Len(sections) |-> EncSection(sections[i])])
  IN Packet("chunk_data", IdChunkData,
            S32Bytes(cx) \o S32Bytes(cz) \o <<IF is_full THEN 1 ELSE 0>>
              \o EncVarInt(bitmask) \o EncHeightmaps
              \o (IF is_full THEN EncVarInt(1) \o EncVarInt(4) ELSE << >>)
              \o EncVarInt(Len(data) + surplus) \o data \o Zeros(surplus)
              \o EncVarInt(0),
            0, FALSE, <<cx, cz, bitmask, sections>>)

PktUnknown(id, body, slack, z) == Packet("unknown", id, body, slack, z, body)

KeepAliveIdA == <<0, 0, 0, 0, 0, 0, 1, 2>>
KeepAliveIdB == <<9, 9, 9, 9, 9, 9, 9, 9>>

Menu ==
  { PktSetCompression,
    PktChat,
    PktKeepAlive(KeepAliveIdA, 0, FALSE),
    PktKeepAlive(KeepAliveIdB, 0, TRUE),
    PktKeepAlive(KeepAliveIdA, -4, FALSE),
    PktKeepAlive(KeepAliveIdB, 1, FALSE),
    PktPlayerPositionAndLook(3, 64, -5, 90, -45, 9),
    PktBlockChange(-1, 5, 16, 7),
    PktMultiBlockChange(0, 0, 0, <<<<7, 1, 2, 3>>, <<9, 15, 0, 0>>>>),
    PktChunkData(0, 0, FALSE, 1,
                 <<[bpb |-> 4, palette |-> <<0, 5, 9>>,
                    words |-> <<<<2, 1, 0, 0, 0, 0, 0, 0, 0, 0, 0, 0, 0, 0, 0, 1>>>>]>>,
                 0),
    PktUnknown(5, <<7, 7>>, 0, FALSE),
    PktUnknown(5, << >>, -1, FALSE) }

\* A packet whose frame holds everything its handler reads.
WellFormed(p) == p.slack >= 0

(***************************************************************************)
(* Actions of the connection: the server sends, the client receives into   *)
(* the ring buffer and calls Interpret.                                    *)
(***************************************************************************)
ServerCompressed == \E k \in 1..Len(sent) : sent[k].kind = "compress"

Send(p) ==
  /\ Len(sent) < MaxPackets
  /\ wire' = wire \o Frame(p, ServerCompressed)
  /\ sent' = Append(sent, p)
  /\ UNCHANGED <<decoderVars, worldVars, camera, last_op, edits, probe>>

\* recv of k bytes at write_offset, then the call of Interpret
Recv(k) ==
  /\ pc = "idle"
  /\ k <= Len(wire)
  /\ k <= GetFreeSize(read_buffer)
  /\ read_buffer' =
       [read_buffer EXCEPT
          !.data = [i \in 1..RbSize |->
                      LET o == (i - 1 - read_buffer.write_offset + RbSize) % RbSize
                      IN IF o < k THEN wire[o + 1] ELSE read_buffer.data[i]],
          !.write_offset = (read_buffer.write_offset + k) % RbSize]
  /\ wire' = SubSeq(wire, k + 1, Len(wire))
  /\ pc' = "interp"
  /\ UNCHANGED <<inflate_buffer, compression, outbox, dispatched, worldVars, camera,
                 sent, last_op, edits, probe>>

\* Interpret called with nothing new in the buffer
InterpretCall ==
  /\ pc = "idle"
  /\ pc' = "interp"
  /\ UNCHANGED <<read_buffer, inflate_buffer, compression, outbox, dispatched,
                 worldVars, camera, serverVars, last_op, edits, probe>>

Garbage == {0, 1}
PtrHi == {0, PtrWord}

\* One iteration of the loop of Interpret stores its result.
SetIteration(r) ==
  /\ SetDecoder(r.d)
  /\ pc' = IF r.running THEN "interp" ELSE "idle"

\* The branch of the loop body a frame takes: the handled id, Incomplete for
\* the two breaks, Unknown for an id without a handler.
Incomplete == -1
Unknown == -2
FrameClass(f) ==
  IF ~f.complete THEN Incomplete
  ELSE IF f.pkt_id \in HandledIds THEN f.pkt_id
  ELSE Unknown

IterateOn(class, f, g, ptr_hi) ==
  /\ FrameClass(f) = class
  /\ SetIteration(IterationOn(Decoder, f, g, ptr_hi))

Iterate(class) ==
  /\ \E g \in Garbage, ptr_hi \in PtrHi :
       IterateOn(class, FrameAt(Decoder, g), g, ptr_hi)
  /\ UNCHANGED <<serverVars, last_op, edits, probe>>

InterpretIncomplete ==
  /\ pc = "interp"
  /\ Iterate(Incomplete)

InterpretSetCompression ==
  /\ pc = "interp"
  /\ Iterate(IdSetCompression)

InterpretChat ==
  /\ pc = "interp"
  /\ Iterate(IdChat)

InterpretKeepAlive ==
  /\ pc = "interp"
  /\ Iterate(IdKeepAlive)

InterpretPlayerPositionAndLook ==
  /\ pc = "interp"
  /\ Iterate(IdPlayerPositionAndLook)

InterpretBlockChange ==
  /\ pc = "interp"
  /\ Iterate(IdBlockChange)

InterpretMultiBlockChange ==
  /\ pc = "interp"
  /\ Iterate(IdMultiBlockChange)

InterpretChunkData ==
  /\ pc = "interp"
  /\ Iterate(IdChunkData)

InterpretUnknown ==
  /\ pc = "interp"
  /\ Iterate(Unknown)

Next ==
  \/ \E p \in Menu : Send(p)
  \/ \E k \in 1..(RbSize - 1) : Recv(k)
  \/ InterpretCall
  \/ InterpretIncomplete
  \/ InterpretSetCompression
  \/ InterpretChat
  \/ InterpretKeepAlive
  \/ InterpretPlayerPositionAndLook
  \/ InterpretBlockChange
  \/ InterpretMultiBlockChange
  \/ InterpretChunkData
  \/ InterpretUnknown

Spec == Init /\ [][Next]_vars

(***************************************************************************)
(* The chunk-data handler fed sections of several widths, columns whose    *)
(* two coordinates differ, empty packets and surplus data, each frame      *)
(* delivered whole, with block changes in the same columns.                *)
(***************************************************************************)
ChunkMenu ==
  { PktChunkData(0, 0, FALSE, 1,
                 <<[bpb |-> 5, palette |-> <<0, 5, 9>>,
                    words |-> <<<<2, 1, 0, 0, 0, 0, 0, 0, 0, 0, 0, 2>>>>]>>, 0),
    PktChunkData(0, 0, FALSE, 1,
                 <<[bpb |-> 4, palette |-> <<0, 5>>, words |-> <<<<1>>>>]>>, 3),
    PktChunkData(0, 0, FALSE, 1,
                 <<[bpb |-> 2, palette |-> <<0, 5>>, words |-> <<<<1, 0, 1>>>>]>>, 0),
    PktChunkData(1, 0, FALSE, 2,
                 <<[bpb |-> 14, palette |-> << >>,
                    words |-> <<<<300, 7, 0, 1>>, <<0, 0, 0, 9000>>>>]>>, 0),
    PktChunkData(0, 1, FALSE, 1,
                 <<[bpb |-> 4, palette |-> <<0, 5>>, words |-> <<<<1, 3>>>>]>>, 0),
    PktChunkData(2, 3, TRUE, 0, << >>, 0),
    PktChunkData(2, 3, FALSE, 1, << >>, 0),
    PktChunkData(2, 3, FALSE, 0, << >>, 2),
    PktBlockChange(19, 21, 2, 7),
    PktBlockChange(3, 5, 2, 7) }

NextChunk ==
  \/ \E p \in ChunkMenu : Send(p)
  \/ wire # << >> /\ Recv(Len(wire))
  \/ InterpretChunkData
  \/ InterpretBlockChange

SpecChunk == Init /\ [][NextChunk]_vars

(***************************************************************************)
(* Compressed mode fed deflated frames: a keep-alive whose deflate stream  *)
(* is shorter than its payload, one whose stream is longer, and one sent   *)
(* with decompressed size 0.                                               *)
(***************************************************************************)
InflateMenu ==
  { PktSetCompression,
    PktKeepAlive(KeepAliveIdA, 0, TRUE),
    PktKeepAlive(KeepAliveIdB, 0, TRUE),
    PktKeepAlive(KeepAliveIdA, 0, FALSE) }

NextInflate ==
  \/ \E p \in InflateMenu : Send(p)
  \/ \E k \in 1..(RbSize - 1) : Recv(k)
  \/ InterpretIncomplete
  \/ InterpretSetCompression
  \/ InterpretKeepAlive
  \/ InterpretUnknown

SpecInflate == Init /\ [][NextInflate]_vars

(***************************************************************************)
(* World::GetChunkCacheIndex applied on its own to a coordinate.           *)
(***************************************************************************)
MinS32 == -2147483647 - 1
MaxS32 == 2147483647

IndexInputs ==
  (-MaxIndexInput..MaxIndexInput)
    \cup {MinS32, MinS32 + 1, MinS32 + 23, MinS32 + 24, MaxS32 - 24, MaxS32 - 23,
          MaxS32 - 1, MaxS32}

InitIdx ==
  /\ InitProgram
  /\ \E v \in IndexInputs :
       probe = [fn |-> "GetChunkCacheIndex", in |-> v, out |-> 0, done |-> FALSE]

CallGetChunkCacheIndex ==
  /\ probe.fn = "GetChunkCacheIndex"
  /\ ~probe.done
  /\ probe' = [probe EXCEPT !.out = GetChunkCacheIndex(probe.in), !.done = TRUE]
  /\ UNCHANGED <<decoderVars, worldVars, camera, serverVars, last_op, edits>>

NextIdx == CallGetChunkCacheIndex

SpecIdx == InitIdx /\ [][NextIdx]_vars

(***************************************************************************)
(* The chunk-data handler fed sections whose declared word count covers    *)
(* more fields than a sub-chunk has cells.  The frame carries the first    *)
(* word only; the words after it are read as 0 from a buffer with too few  *)
(* bytes left.                                                             *)
(***************************************************************************)
\* A chunk-data packet with one section that declares count data words.
PktChunkDataDeclared(cx, cz, bitmask, sec, count) ==
  LET data == U16Bytes(1) \o <<sec.bpb>>
                \o (IF sec.bpb < 9
                    THEN EncVarInt(Len(sec.palette))
                           \o Concat([i \in 1..Len(sec.palette) |->
                                        EncVarInt(sec.palette[i])])
                    ELSE << >>)
                \o EncVarInt(count)
                \o Concat([i \in 1..Len(sec.words) |-> EncWord(sec.words[i], sec.bpb)])
  IN Packet("chunk_data", IdChunkData,
            S32Bytes(cx) \o S32Bytes(cz) \o <<0>> \o EncVarInt(bitmask)
              \o EncHeightmaps \o EncVarInt(Len(data)) \o data \o EncVarInt(0),
            0, FALSE, <<cx, cz, bitmask, <<sec>>, count>>)

BulkMenu ==
  { PktChunkDataDeclared(0, 0, 1, [bpb |-> 5, palette |-> <<5, 9>>,
                                   words |-> <<<<1, 0, 1>>>>], 342),
    PktChunkDataDeclared(0, 0, 32768, [bpb |-> 5, palette |-> <<5, 9>>,
                                       words |-> <<<<1, 0, 1>>>>], 342),
    PktChunkDataDeclared(0, 0, 1, [bpb |-> 4, palette |-> <<7>>,
                                   words |-> <<<<0>>>>], 256),
    PktChunkDataDeclared(0, 0, 1, [bpb |-> 4, palette |-> <<7>>,
                                   words |-> <<<<0>>>>], 257),
    PktChunkDataDeclared(0, 0, 2, [bpb |-> 5, palette |-> <<5, 9>>,
                                   words |-> <<<<1, 0, 1>>>>], 1),
    PktChunkDataDeclared(0, 0, 4, [bpb |-> 14, palette |-> << >>,
                                   words |-> <<<<300, 7, 0, 1>>>>], 1) }

NextBulk ==
  \/ \E p \in BulkMenu : Send(p)
  \/ wire # << >> /\ Recv(Len(wire))
  \/ InterpretChunkData

SpecBulk == Init /\ [][NextBulk]_vars

(***************************************************************************)
(* The two block-change handlers fed positions at and beyond the ends of   *)
(* the column's height.                                                    *)
(***************************************************************************)
HeightMenu ==
  { PktBlockChange(3, 5, 3, 7),
    PktBlockChange(3, 255, 3, 7),
    PktBlockChange(3, -1, 3, 7),
    PktBlockChange(3, 256, 3, 7),
    PktBlockChange(3, 2047, 3, 7),
    PktBlockChange(3, -2048, 3, 7),
    PktMultiBlockChange(0, 15, 0, <<<<7, 3, 15, 3>>>>),
    PktMultiBlockChange(0, 16, 0, <<<<7, 3, 0, 3>>>>),
    PktMultiBlockChange(0, 262143, 0, <<<<7, 3, 0, 3>>>>) }

NextHeight ==
  \/ \E p \in HeightMenu : Send(p)
  \/ wire # << >> /\ Recv(Len(wire))
  \/ InterpretBlockChange
  \/ InterpretMultiBlockChange

SpecHeight == Init /\ [][NextHeight]_vars

(***************************************************************************)
(* The build queue fed a line of columns (0,0), (1,0), (2,0), ...: none of *)
(* them ever has its neighbours (n,1) and (n,-1) loaded, so no pass builds *)
(* one.  The server loads the next column of the line; unloads and passes  *)
(* are taken while the queue is short.                                     *)
(***************************************************************************)
LineLoad ==
  /\ Len(build_queue) <= BuildQueueCapacity
  /\ SetWorld(OnChunkLoad(World, Len(build_queue), 0))
  /\ last_op' = [op |-> "OnChunkLoad", args |-> <<Len(build_queue), 0>>]
  /\ UNCHANGED <<decoderVars, camera, serverVars, edits, probe>>

LineUnload ==
  /\ build_queue # << >>
  /\ Len(build_queue) <= MaxPending
  /\ Info(World, SectionSlot(Len(build_queue) - 1, 0)[1],
          SectionSlot(Len(build_queue) - 1, 0)[2]).loaded
  /\ SetWorld(OnChunkUnload(World, Len(build_queue) - 1, 0))
  /\ last_op' = [op |-> "OnChunkUnload", args |-> <<Len(build_queue) - 1, 0>>]
  /\ UNCHANGED <<decoderVars, camera, serverVars, edits, probe>>

LineUpdate ==
  /\ build_queue # << >>
  /\ Len(build_queue) <= MaxPending
  /\ \E ptr_hi \in PtrHi : SetWorld(ProcessBuildQueue(World, 1, ptr_hi))
  /\ last_op' = [op |-> "Update", args |-> << >>]
  /\ UNCHANGED <<decoderVars, camera, serverVars, edits, probe>>

NextLine ==
  \/ LineLoad
  \/ LineUnload
  \/ LineUpdate

SpecLine == Init /\ [][NextLine]_vars

(***************************************************************************)
(* The position decode of the block-change handler applied on its own to   *)
(* the packed form of a position.                                          *)
(***************************************************************************)
PositionXZs ==
  {-Pow2(25), -Pow2(25) + 1, -17, -1, 0, 1, 16, Pow2(24), Pow2(25) - 1}
PositionYs == {0, 5, 255, 2047, 2048, 4095}

InitPos ==
  /\ InitProgram
  /\ \E x \in PositionXZs, y \in PositionYs, z \in PositionXZs :
       probe = [fn |-> "DecodePosition", in |-> <<x, y, z>>, out |-> <<0, 0, 0>>,
                done |-> FALSE]

CallDecodePosition ==
  /\ probe.fn = "DecodePosition"
  /\ ~probe.done
  /\ probe' = [probe EXCEPT
                 !.out = DecodePosition(EncPosition(probe.in[1], probe.in[2],
                                                    probe.in[3])),
                 !.done = TRUE]
  /\ UNCHANGED <<decoderVars, worldVars, camera, serverVars, last_op, edits>>

NextPos == CallDecodePosition

SpecPos == InitPos /\ [][NextPos]_vars

(***************************************************************************)
(* The game state's operations called directly on the world.               *)
(***************************************************************************)
WorldColumns == {<<0, 0>>, <<1, 0>>, <<-1, 0>>, <<0, 1>>, <<0, -1>>, <<24, 0>>}
EditXs == {-1, 16, 16777231}
EditYs == {5, 255}
EditZs == {16}
EditIds == {0, 7}

CallOnChunkLoad(c) ==
  /\ Len(build_queue) < MaxQueue
  /\ SetWorld(OnChunkLoad(World, c[1], c[2]))
  /\ last_op' = [op |-> "OnChunkLoad", args |-> <<c[1], c[2]>>]
  /\ UNCHANGED <<decoderVars, camera, serverVars, edits, probe>>

CallOnChunkUnload(c) ==
  /\ Info(World, SectionSlot(c[1], c[2])[1], SectionSlot(c[1], c[2])[2]).loaded
  /\ SetWorld(OnChunkUnload(World, c[1], c[2]))
  /\ last_op' = [op |-> "OnChunkUnload", args |-> <<c[1], c[2]>>]
  /\ UNCHANGED <<decoderVars, camera, serverVars, edits, probe>>

CallOnBlockChange(x, y, z, new_bid) ==
  /\ edits < MaxEdits
  /\ \E ptr_hi \in PtrHi : SetWorld(OnBlockChange(World, x, y, z, new_bid, ptr_hi))
  /\ last_op' = [op |-> "OnBlockChange", args |-> <<x, y, z, new_bid>>]
  /\ edits' = edits + 1
  /\ UNCHANGED <<decoderVars, camera, serverVars, probe>>

\* The build-queue loop of GameState::Update
CallUpdate ==
  /\ build_queue # << >>
  /\ \E ptr_hi \in PtrHi : SetWorld(ProcessBuildQueue(World, 1, ptr_hi))
  /\ last_op' = [op |-> "Update", args |-> << >>]
  /\ UNCHANGED <<decoderVars, camera, serverVars, edits, probe>>

NextWorld ==
  \/ \E c \in WorldColumns : CallOnChunkLoad(c)
  \/ \E c \in WorldColumns : CallOnChunkUnload(c)
  \/ \E x \in EditXs, y \in EditYs, z \in EditZs, new_bid \in EditIds :
       CallOnBlockChange(x, y, z, new_bid)
  \/ CallUpdate

SpecWorld == Init /\ [][NextWorld]_vars

(***************************************************************************)
(* The same operations on the columns around the origin.  The server sends *)
(* the four horizontal neighbours of column (0,0) in the order east, west, *)
(* south, north and column (0,0) itself at any point; no column is sent    *)
(* again while it is loaded or pending.  Blocks are placed on the border   *)
(* between two columns, at the top of the world and inside a column, and   *)
(* the scheduling pass runs at any time.                                   *)
(***************************************************************************)
SchedRing == << <<1, 0>>, <<-1, 0>>, <<0, 1>>, <<0, -1>> >>
SchedColumns == {<<0, 0>>} \cup {SchedRing[k] : k \in 1..Len(SchedRing)}
SchedUnloads == {<<0, 0>>, <<-1, 0>>}
SchedEdits ==
  {<<0, 5, 3, 7>>, <<-1, 5, 3, 7>>, <<0, 255, 0, 7>>, <<3, 5, 3, BarrierId>>,
   <<0, 5, 3, 0>>}

Loaded(c) == Info(World, SectionSlot(c[1], c[2])[1], SectionSlot(c[1], c[2])[2]).loaded

\* The columns of the ring sent before c.
SentBefore(c) ==
  \A k \in 1..Len(SchedRing) :
    SchedRing[k] = c => \A j \in 1..(k - 1) :
                          IsQueued(World, SchedRing[j][1], SchedRing[j][2])

LoadAround(c) ==
  /\ ~Loaded(c)
  /\ ~IsQueued(World, c[1], c[2])
  /\ SentBefore(c)
  /\ Len(build_queue) < MaxPending
  /\ SetWorld(OnChunkLoad(World, c[1], c[2]))
  /\ last_op' = [op |-> "OnChunkLoad", args |-> <<c[1], c[2]>>]
  /\ UNCHANGED <<decoderVars, camera, serverVars, edits, probe>>

UnloadAround(c) ==
  /\ Loaded(c)
  /\ SetWorld(OnChunkUnload(World, c[1], c[2]))
  /\ last_op' = [op |-> "OnChunkUnload", args |-> <<c[1], c[2]>>]
  /\ UNCHANGED <<decoderVars, camera, serverVars, edits, probe>>

EditAround(e) ==
  /\ edits < MaxSchedEdits
  /\ \E ptr_hi \in PtrHi :
       SetWorld(OnBlockChange(World, e[1], e[2], e[3], e[4], ptr_hi))
  /\ last_op' = [op |-> "OnBlockChange", args |-> e]
  /\ edits' = edits + 1
  /\ UNCHANGED <<decoderVars, camera, serverVars, probe>>

UpdateAround ==
  /\ build_queue # << >>
  /\ \E ptr_hi \in PtrHi : SetWorld(ProcessBuildQueue(World, 1, ptr_hi))
  /\ last_op' = [op |-> "Update", args |-> << >>]
  /\ UNCHANGED <<decoderVars, camera, serverVars, edits, probe>>

NextSched ==
  \/ \E c \in SchedColumns : LoadAround(c)
  \/ \E c \in SchedUnloads : UnloadAround(c)
  \/ \E e \in SchedEdits : EditAround(e)
  \/ UpdateAround

SpecSched == Init /\ [][NextSched]_vars

(***************************************************************************)
(* The mesher: the same calls without unloads, with block changes that     *)
(* place blocks next to each other across a column border, at the top of   *)
(* the column, and in the storage that follows the column's section.       *)
(***************************************************************************)
MeshEdits ==
  {<<0, 5, 3, 7>>, <<-1, 5, 3, 7>>, <<3, 5, 3, BarrierId>>, <<0, 5, 3, 0>>,
   <<0, 255, 0, 7>>, <<31, 0, 0, 7>>}

NextMesh ==
  \/ \E c \in SchedColumns : LoadAround(c)
  \/ \E e \in MeshEdits : EditAround(e)
  \/ UpdateAround

SpecMesh == Init /\ [][NextMesh]_vars

(***************************************************************************)
(* The mesher with block changes on both sides of a border: a block of     *)
(* column (0,0) at its west edge and the cell of column (-1,0) that the    *)
(* mesher copies beside it; a block at the top of sub-chunk 0 and the cell *)
(* of sub-chunk 1 that the mesher copies above it.                         *)
(***************************************************************************)
BorderEdits ==
  {<<0, 5, 3, 7>>, <<-1, 6, 4, 7>>, <<0, 15, 3, 7>>, <<1, 16, 4, 7>>}

NextBorder ==
  \/ \E c \in SchedColumns : LoadAround(c)
  \/ \E e \in BorderEdits : EditAround(e)
  \/ UpdateAround

SpecBorder == Init /\ [][NextBorder]_vars

(***************************************************************************)
(* The claims.                                                             *)
(***************************************************************************)
\* C9: GetChunkCacheIndex(v) is, for every signed 32-bit v, the mathematical
\* v mod 24, a value in 0..23; a coordinate u maps to the same index exactly
\* when u - v is a multiple of 24.
C9_IndexIsMod ==
  probe.done =>
    /\ probe.out = probe.in % kChunkCacheSize
    /\ probe.out \in 0..(kChunkCacheSize - 1)
    /\ probe.in \in -MaxIndexInput..MaxIndexInput =>
         \A u \in -MaxIndexInput..MaxIndexInput :
           (GetChunkCacheIndex(u) = probe.out) <=> ((u - probe.in) % kChunkCacheSize = 0)

\* The index of -1 has been computed, and it is 23.
C9_Witness == probe.done /\ probe.in = -1 /\ probe.out = kChunkCacheSize - 1

\* C10: after OnBlockChange(x, y, z, id) with 0 <= y < 256, id is at cell
\* (x mod 16, y mod 16, z mod 16) of sub-chunk floor(y / 16) in the slot of
\* column (floor(x / 16), floor(z / 16)), the divisions rounding down.
C10_WritesFlooredCell ==
  (last_op.op = "OnBlockChange" /\ last_op.args[2] \in 0..255) =>
    Block(World, GetChunkCacheIndex(last_op.args[3] \div 16),
          GetChunkCacheIndex(last_op.args[1] \div 16),
          CellIndex(last_op.args[2] \div 16, last_op.args[2] % 16,
                    last_op.args[3] % 16, last_op.args[1] % 16))
      = last_op.args[4]

\* The example of the claim: 7 is at cell (15, 5, 0) of column (-1, 1).
C10_Example ==
  /\ last_op = [op |-> "OnBlockChange", args |-> <<-1, 5, 16, 7>>]
  /\ Block(World, 1, kChunkCacheSize - 1, CellIndex(0, 5, 0, 15)) = 7

\* The frames of the packets sent, as they went on the wire.
SentFrame(k) == Frame(sent[k], \E j \in 1..(k - 1) : sent[j].kind = "compress")
Stream == Concat([k \in 1..Len(sent) |-> SentFrame(k)])

\* The last frame dispatched, and whether this step dispatches a frame.
LastDispatched == dispatched[Len(dispatched)]
Dispatches == Len(dispatched') = Len(dispatched) + 1

\* The length VarInt at the cursor of the primary buffer.
LengthAtCursor == ReadVarInt(read_buffer)

\* C1: whenever a complete frame is dispatched, whatever its id and however
\* much its handler read, the primary buffer's read offset after the
\* iteration is (offset after the length VarInt + declared length) mod size.
C1_LandsOnFrameBoundary ==
  [][Dispatches =>
       read_buffer'.read_offset =
         (LengthAtCursor.rb.read_offset + LengthAtCursor.value) % read_buffer.size]_vars

\* Two frames have been dispatched, the first a keep-alive cut to 4 bytes of
\* id (its handler reads past the frame), and the second was found.
C1_Witness ==
  /\ Len(dispatched) = 2
  /\ dispatched[1] = [id |-> IdKeepAlive, size |-> 5, inflated |-> FALSE]
  /\ sent[2].kind = "chunk_data"
  /\ dispatched[2].id = IdChunkData

\* A step of the loop of Interpret (the server only appends to the wire).
IterationStep == pc = "interp" /\ serverVars' = serverVars

\* The frame at the cursor is incomplete: its length cannot be read, or
\* fewer bytes are available than it declares.
FrameIncomplete ==
  \/ ~LengthAtCursor.ok
  \/ GetReadAmount(LengthAtCursor.rb) < LengthAtCursor.value

\* C2: an iteration that finds the frame at the cursor incomplete stops
\* Interpret with the read offset where the iteration found it, and runs no
\* handler: nothing is dispatched, sent or changed in the world.
C2_IncompleteFrameUntouched ==
  [][(IterationStep /\ FrameIncomplete) =>
       /\ pc' = "idle"
       /\ read_buffer' = read_buffer
       /\ dispatched' = dispatched
       /\ outbox' = outbox
       /\ compression' = compression
       /\ camera' = camera
       /\ UNCHANGED <<chunks, chunk_infos, meshes, build_queue>>]_vars

\* Interpret has stopped on a frame whose length was read but whose body
\* has not arrived, after it dispatched a frame.
C2_Witness ==
  /\ pc = "idle"
  /\ Len(dispatched) = 1
  /\ LengthAtCursor.ok
  /\ GetReadAmount(LengthAtCursor.rb) < LengthAtCursor.value
  /\ GetReadAmount(LengthAtCursor.rb) > 0

\* Interpret called once on a buffer that holds the whole stream.
AtOnce ==
  Interpret(NewDecoder([data |-> Stream, read_offset |-> 0,
                        write_offset |-> Len(Stream), size |-> Len(Stream) + 1]),
            0, 0)

ValidStream == \A k \in 1..Len(sent) : WellFormed(sent[k])

\* The run so far agrees with the run a, and is complete once everything
\* is delivered and Interpret has returned.
AgreesWith(a) ==
  /\ Len(dispatched) <= Len(a.log)
  /\ dispatched = SubSeq(a.log, 1, Len(dispatched))
  /\ Len(outbox) <= Len(a.outbox)
  /\ outbox = SubSeq(a.outbox, 1, Len(outbox))
  /\ (pc = "idle" /\ wire = << >>) =>
       /\ Len(dispatched) = Len(sent)
       /\ \A k \in 1..Len(sent) :
            /\ dispatched[k].size = Len(SentFrame(k)) - Len(EncVarInt(dispatched[k].size))
            /\ ~dispatched[k].inflated => dispatched[k].id = sent[k].id

\* C3: for valid packets, whatever the deliveries, the frames dispatched so
\* far are the first ones the single call on the whole stream dispatches,
\* with the same messages sent; once everything is delivered and Interpret
\* has returned, every packet has been dispatched exactly once, in order.
C3_ChunkingIndependent == ValidStream => AgreesWith(AtOnce)

\* Two valid packets were delivered in at least three deliveries and both
\* have been dispatched.
C3_Witness ==
  /\ ValidStream
  /\ pc = "idle"
  /\ wire = << >>
  /\ Len(sent) = 2
  /\ sent[1].kind = "keep_alive"
  /\ sent[2].kind = "pos_look"
  /\ Len(dispatched) = 2
  /\ Len(outbox) = 2

\* C4: the compression flag starts false, is true after a frame with id
\* 0x03 is dispatched, changes only then and never goes back to false.
C4_CompressionLatches ==
  /\ compression = FALSE
  /\ [][/\ compression => compression'
        /\ (Dispatches /\ LastDispatched'.id = IdSetCompression) => compression'
        /\ (~compression /\ compression') =>
             (Dispatches /\ LastDispatched'.id = IdSetCompression)]_vars

\* The flag is set and a later frame has been dispatched in compressed mode.
C4_Witness ==
  /\ compression
  /\ Len(dispatched) = 2
  /\ dispatched[1].id = IdSetCompression
  /\ dispatched[2].id = IdKeepAlive

\* The number of messages the first k dispatched frames send.
OutIndex(k) ==
  Cardinality({j \in 1..k :
                 dispatched[j].id \in {IdKeepAlive, IdPlayerPositionAndLook}})

\* C5: every dispatched keep-alive frame has exactly one SendKeepAlive, at
\* its place in the order of dispatch, and it carries the id of the packet.
C5_KeepAliveEchoed ==
  /\ Cardinality({i \in 1..Len(outbox) : outbox[i].kind = "keep_alive"})
       = Cardinality({k \in 1..Len(dispatched) : dispatched[k].id = IdKeepAlive})
  /\ \A k \in 1..Len(dispatched) :
       dispatched[k].id = IdKeepAlive =>
         /\ OutIndex(k) <= Len(outbox)
         /\ outbox[OutIndex(k)].kind = "keep_alive"
         /\ (sent[k].kind = "keep_alive" /\ WellFormed(sent[k])) =>
              outbox[OutIndex(k)].id = sent[k].arg

\* Two keep-alives with different ids were dispatched and echoed in order.
C5_Witness ==
  /\ Len(dispatched) = 2
  /\ Len(outbox) = 2
  /\ outbox[1].kind = "keep_alive"
  /\ outbox[2].kind = "keep_alive"
  /\ outbox[1].id = KeepAliveIdA
  /\ outbox[2].id = KeepAliveIdB

\* C6: every dispatched position-and-look frame has exactly one
\* SendTeleportConfirm, at its place in the order of dispatch, and it
\* carries the teleport id of the packet.
C6_TeleportConfirmed ==
  /\ Cardinality({i \in 1..Len(outbox) : outbox[i].kind = "teleport_confirm"})
       = Cardinality({k \in 1..Len(dispatched) :
                        dispatched[k].id = IdPlayerPositionAndLook})
  /\ \A k \in 1..Len(dispatched) :
       dispatched[k].id = IdPlayerPositionAndLook =>
         /\ OutIndex(k) <= Len(outbox)
         /\ outbox[OutIndex(k)].kind = "teleport_confirm"
         /\ (sent[k].kind = "pos_look" /\ WellFormed(sent[k])) =>
              outbox[OutIndex(k)].id = sent[k].arg.teleport_id

\* A keep-alive, then a position-and-look: the confirm follows the echo.
C6_Witness ==
  /\ Len(dispatched) = 2
  /\ Len(outbox) = 2
  /\ outbox[1].kind = "keep_alive"
  /\ outbox[2].kind = "teleport_confirm"
  /\ outbox[2].id = 9

\* Position, yaw and pitch as the handler decodes them from the packet body.
DecodedView(body) ==
  [position |-> <<DoubleValue(SubSeq(body, 1, 8)), DoubleValue(SubSeq(body, 9, 16)),
                  DoubleValue(SubSeq(body, 17, 24))>>,
   yaw |-> FloatValue(SubSeq(body, 25, 28)),
   pitch |-> FloatValue(SubSeq(body, 29, 32))]

\* C7: after a position-and-look frame is dispatched, the camera holds the
\* view OnPlayerPositionAndLook makes of the decoded position, yaw and pitch.
C7_CameraUpdated ==
  (/\ Len(dispatched) > 0
   /\ LastDispatched.id = IdPlayerPositionAndLook
   /\ sent[Len(dispatched)].kind = "pos_look") =>
    camera = OnPlayerPositionAndLook(
               DecodedView(sent[Len(dispatched)].body).position,
               DecodedView(sent[Len(dispatched)].body).yaw,
               DecodedView(sent[Len(dispatched)].body).pitch)

\* A position-and-look frame was dispatched and confirmed, and the camera is
\* where construction left it.
C7_Witness ==
  /\ Len(dispatched) = 1
  /\ LastDispatched.id = IdPlayerPositionAndLook
  /\ sent[1].kind = "pos_look"
  /\ Len(outbox) = 1
  /\ camera = NoCamera

\* C8: dispatching a frame whose id has no handler leaves the compression
\* flag, the blocks, the chunk infos, the build queue, the meshes and the
\* camera as they were, and sends nothing.
C8_UnknownIdChangesNothing ==
  [][(Dispatches /\ LastDispatched'.id \notin HandledIds) =>
       /\ compression' = compression
       /\ outbox' = outbox
       /\ camera' = camera
       /\ UNCHANGED <<chunks, chunk_infos, build_queue, meshes>>]_vars

\* A frame with id 5 was dispatched after a chunk had been stored.
C8_Witness ==
  /\ Len(dispatched) = 2
  /\ dispatched[1].id = IdChunkData
  /\ dispatched[2].id = 5
  /\ chunks # EmptyMap
\* The slot of column c as the game state indexes it, and what it holds.
SlotOf(c) == <<GetChunkCacheIndex(c[2]), GetChunkCacheIndex(c[1])>>
InfoOf(c) == Get(chunk_infos, SlotOf(c), NoInfo)
MeshOf(c, chunk_y) == Get(meshes, <<SlotOf(c)[1], SlotOf(c)[2], chunk_y>>, 0)
Pending(c) == Cardinality({i \in 1..Len(build_queue) : build_queue[i] = c})
PendingColumns == {build_queue[i] : i \in 1..Len(build_queue)}

\* The four horizontal neighbour slots of column c are all loaded.
NeighboursLoaded(c) ==
  /\ InfoOf(<<c[1] + 1, c[2]>>).loaded
  /\ InfoOf(<<c[1] - 1, c[2]>>).loaded
  /\ InfoOf(<<c[1], c[2] + 1>>).loaded
  /\ InfoOf(<<c[1], c[2] - 1>>).loaded

\* C11: a scheduling pass removes from the build queue exactly the pending
\* coordinates whose four neighbour slots are loaded, and meshes their
\* sub-chunks that have the presence bit; every other pending coordinate is
\* still pending, as often as before, and no other mesh changes.  So a column
\* with 3 of 4 neighbours stays pending until the pass after the 4th loads.
C11_PassBuildsReadyColumns ==
  [][last_op'.op = "Update" =>
       /\ \A c \in PendingColumns :
            Pending(c)' = IF NeighboursLoaded(c) THEN 0 ELSE Pending(c)
       /\ PendingColumns' \subseteq PendingColumns
       /\ chunks' = chunks
       /\ chunk_infos' = chunk_infos
       /\ \A c \in PendingColumns, chunk_y \in 0..15 :
            IF NeighboursLoaded(c) /\ Bit(InfoOf(c).bitmask, chunk_y) = 1
            THEN \E ptr_hi \in PtrHi :
                   MeshOf(c, chunk_y)' =
                     MeshVertexCount(World, Neighbors(c[1], c[2]), chunk_y, ptr_hi)
            ELSE MeshOf(c, chunk_y)' = MeshOf(c, chunk_y)]_vars

\* A pass has run: column (0,0), whose sub-chunk 0 holds a block, is no
\* longer pending and has a mesh, and its four neighbours, which lack
\* neighbours of their own, are all still pending.
C11_Witness ==
  /\ last_op.op = "Update"
  /\ bad = {}
  /\ Pending(<<0, 0>>) = 0
  /\ InfoOf(<<0, 0>>).loaded
  /\ MeshOf(<<0, 0>>, 0) > 0
  /\ \A k \in 1..Len(SchedRing) : Pending(SchedRing[k]) = 1
\* C12: the build queue never holds a coordinate twice.
C12_NoDuplicatePending == \A c \in PendingColumns : Pending(c) <= 1

\* OnChunkLoad(0, 0) was called while (0,0) was pending, and it is pending twice.
C12_Witness ==
  /\ last_op = [op |-> "OnChunkLoad", args |-> <<0, 0>>]
  /\ build_queue = << <<0, 0>>, <<0, 0>> >>
\* The column of the chunk-data packet that was dispatched last.
LastChunkColumn ==
  <<sent[Len(dispatched)].arg[1], sent[Len(dispatched)].arg[2]>>

LastIsChunkData ==
  /\ Len(dispatched) > 0
  /\ LastDispatched.id = IdChunkData
  /\ sent[Len(dispatched)].kind = "chunk_data"

\* C13: after a chunk-data packet for column (x,z) has been dispatched, the
\* cache slot of (x,z) is marked loaded and (x,z) is in the build queue.
C13_ChunkDataLoadsColumn ==
  LastIsChunkData =>
    /\ InfoOf(LastChunkColumn).loaded
    /\ Pending(LastChunkColumn) >= 1

\* A chunk-data packet was dispatched and stored its blocks; no slot is
\* loaded and nothing is pending.
C13_Witness ==
  /\ LastIsChunkData
  /\ pc = "idle"
  /\ chunks # EmptyMap
  /\ build_queue = << >>
  /\ \A s \in DOMAIN chunk_infos : ~chunk_infos[s].loaded
\* The presence bits of every slot.
Bitmasks == [s \in DOMAIN chunk_infos |-> chunk_infos[s].bitmask]

\* A direct call of OnBlockChange is this step; its arguments are last_op'.args.
EditStep == edits' = edits + 1

\* C14: OnBlockChange for a column whose slot is not loaded leaves all
\* block data and all presence bits unchanged.
C14_UnloadedColumnUntouched ==
  [][(/\ EditStep
      /\ ~InfoOf(<<last_op'.args[1] \div 16, last_op'.args[3] \div 16>>).loaded) =>
       /\ chunks' = chunks
       /\ Bitmasks' = Bitmasks]_vars

\* OnBlockChange(-1, 5, 16, 7) ran on a world in which nothing was ever
\* loaded, and the block is stored.
C14_Witness ==
  /\ last_op = [op |-> "OnBlockChange", args |-> <<-1, 5, 16, 7>>]
  /\ edits = 1
  /\ build_queue = << >>
  /\ \A s \in DOMAIN chunk_infos : ~chunk_infos[s].loaded
  /\ Block(World, 1, kChunkCacheSize - 1, CellIndex(0, 5, 0, 15)) = 7
  /\ InfoOf(<<-1, 1>>).bitmask = 1
\* The block data and the meshes held by the slot of column c.
SlotBlocks(c) ==
  [k \in {kk \in DOMAIN chunks : <<kk[1], kk[2]>> = SlotOf(c)} |-> chunks[k]]
SlotMeshes(c) == [chunk_y \in 0..15 |-> MeshOf(c, chunk_y)]

\* The columns the direct calls address.
CalledColumns == (-1..3) \X (-1..1)

\* C15: OnChunkUnload and OnBlockChange for a column whose slot stores
\* another column's coordinate change nothing in that slot: the loaded
\* flag, the block data, the presence bits and the meshes stay as they were.
C15_StaleSlotUntouched ==
  [][\A c \in CalledColumns :
       (/\ \/ last_op' = [op |-> "OnChunkUnload", args |-> c]
           \/ /\ EditStep
              /\ c = <<last_op'.args[1] \div 16, last_op'.args[3] \div 16>>
        /\ <<InfoOf(c).x, InfoOf(c).z>> # c) =>
         /\ InfoOf(c)' = InfoOf(c)
         /\ SlotBlocks(c)' = SlotBlocks(c)
         /\ SlotMeshes(c)' = SlotMeshes(c)]_vars

\* Column (-1, 0) was loaded and then unloaded while its slot stores the
\* coordinate (0, 0).
C15_Witness ==
  /\ last_op = [op |-> "OnChunkUnload", args |-> <<-1, 0>>]
  /\ <<InfoOf(<<-1, 0>>).x, InfoOf(<<-1, 0>>).z>> = <<0, 0>>
  /\ ~InfoOf(<<-1, 0>>).loaded
  /\ \E i \in 1..Len(build_queue) : build_queue[i] = <<-1, 0>>
  /\ freed = {}
\* C16: OnChunkUnload always clears the loaded flag of the slot.  When the
\* slot stores the unloaded coordinate, exactly the meshes of the slot with
\* vertex_count > 0 are freed and all 16 counts end at 0; when it stores
\* another coordinate, no mesh is freed and no count changes.
C16_UnloadFreesOnMatch ==
  [][\A c \in CalledColumns :
       last_op' = [op |-> "OnChunkUnload", args |-> c] =>
         /\ ~InfoOf(c)'.loaded
         /\ IF <<InfoOf(c).x, InfoOf(c).z>> = c
            THEN /\ freed' = {<<SlotOf(c)[1], SlotOf(c)[2], chunk_y>> :
                                chunk_y \in {cy \in 0..15 : MeshOf(c, cy) > 0}}
                 /\ \A chunk_y \in 0..15 : MeshOf(c, chunk_y)' = 0
            ELSE /\ freed' = {}
                 /\ meshes' = meshes]_vars

\* Column (0, 0), whose slot stores (0, 0), was unloaded while it held a
\* mesh with vertices: the mesh was freed and the counts are 0.
C16_Witness ==
  /\ last_op = [op |-> "OnChunkUnload", args |-> <<0, 0>>]
  /\ <<InfoOf(<<0, 0>>).x, InfoOf(<<0, 0>>).z>> = <<0, 0>>
  /\ freed = {<<0, 0, 0>>}
  /\ ~InfoOf(<<0, 0>>).loaded
  /\ \A chunk_y \in 0..15 : MeshOf(<<0, 0>>, chunk_y) = 0

\* A slot that stores another coordinate and holds a mesh with vertices
\* was unloaded: the mesh is still there.
C16_MismatchKeepsMesh ==
  /\ last_op = [op |-> "OnChunkUnload", args |-> <<-1, 0>>]
  /\ freed = {}
  /\ \E chunk_y \in 0..15 : MeshOf(<<-1, 0>>, chunk_y) > 0
\* C17: a mesh entry that holds geometry is released before a rebuild
\* overwrites or zeroes it: in a run in which no assertion failed, no mesh
\* is ever overwritten unfreed.
C17_NoMeshLeaked == bad = {} => leaked = {}

\* Sub-chunk 0 of column (0, 0) was built by a pass, and a later block
\* change rebuilt it in place, with all four neighbours loaded.
C17_Witness ==
  /\ last_op.op = "OnBlockChange"
  /\ leaked = {<<0, 0, 0>>}
  /\ bad = {}
  /\ NeighboursLoaded(<<0, 0>>)
  /\ Pending(<<0, 0>>) = 0
\* The cells of a sub-chunk, as (y, z, x).
Cube == (0..15) \X (0..15) \X (0..15)

\* The cells of the bordered volume of sub-chunk chunk_y of column c that
\* are drawn, and the pairs of a drawn cell and a direction in which the
\* bordered volume holds id 0.
DrawnCells(w, ctx, chunk_y, ptr_hi) ==
  {p \in Cube : Bordered(w, ctx, chunk_y, p[1] + 1, p[2] + 1, p[3] + 1, ptr_hi)
                   \notin {0, BarrierId}}
ExposedPairs(w, ctx, chunk_y, ptr_hi) ==
  {pd \in DrawnCells(w, ctx, chunk_y, ptr_hi) \X FaceOffsets :
     Bordered(w, ctx, chunk_y, pd[1][1] + 1 + pd[2][1], pd[1][2] + 1 + pd[2][2],
              pd[1][3] + 1 + pd[2][3], ptr_hi) = 0}

\* This step rebuilds sub-chunk chunk_y of column c: a block change in a
\* column that is not pending, or a pass over a pending column that is
\* buildable and has the presence bit.
Rebuilt(c, chunk_y) ==
  \/ /\ EditStep
     /\ c = <<last_op'.args[1] \div 16, last_op'.args[3] \div 16>>
     /\ chunk_y = last_op'.args[2] \div 16
     /\ Pending(c) = 0
  \/ /\ last_op'.op = "Update"
     /\ Pending(c) > 0
     /\ NeighboursLoaded(c)
     /\ Bit(InfoOf(c).bitmask, chunk_y) = 1

\* A world whose only blocks fill sub-chunk 0 of column (0, 0).
SolidWorld ==
  [EmptyWorld EXCEPT !.chunks = [k \in {<<0, 0, n>> : n \in 0..(SubChunkCells - 1)} |-> 1]]

\* A fully solid sub-chunk with an all-air halo has 6*16*16 faces, a cell
\* enclosed on six sides has none, and an all-air sub-chunk has no vertex.
C18_Examples ==
  /\ MeshVertexCount(SolidWorld, Neighbors(0, 0), 0, 0) = 9216
  /\ VisibleFaces(SolidWorld, Neighbors(0, 0), 0, 5, 5, 5, 0) = {}
  /\ MeshVertexCount(EmptyWorld, Neighbors(0, 0), 0, 0) = 0

\* C18: a rebuilt mesh has exactly 6 vertices for each pair of a cell whose
\* id is neither 0 nor the barrier id and a direction in which the adjacent
\* cell of the bordered volume has id 0.
C18_SixVerticesPerExposedFace ==
  [][/\ C18_Examples
     /\ \A c \in CalledColumns, chunk_y \in 0..15 :
          Rebuilt(c, chunk_y) =>
            \E ptr_hi \in PtrHi :
              MeshOf(c, chunk_y)' =
                6 * Cardinality(ExposedPairs(World', Neighbors(c[1], c[2]),
                                             chunk_y, ptr_hi))]_vars

\* A block change built the mesh of a sub-chunk holding one block and one
\* barrier: the block has its six faces and the barrier none.
C18_Witness ==
  /\ last_op = [op |-> "OnBlockChange", args |-> <<0, 5, 3, 7>>]
  /\ edits = 2
  /\ bad = {}
  /\ Block(World, 0, 0, CellIndex(0, 5, 3, 3)) = BarrierId
  /\ Block(World, 0, 0, CellIndex(0, 5, 3, 0)) = 7
  /\ Pending(<<0, 0>>) = 0
  /\ MeshOf(<<0, 0>>, 0) = 36
\* The block at world position (x, y, z); air outside the column's height.
BlockAt(x, y, z) ==
  IF y \notin 0..255 THEN 0
  ELSE Get(chunks, <<GetChunkCacheIndex(z \div 16), GetChunkCacheIndex(x \div 16),
                     CellIndex(y \div 16, y % 16, z % 16, x % 16)>>, 0)

\* The pairs of a drawn cell of sub-chunk chunk_y of column c and a
\* direction in which the truly adjacent block of the world is air.
TrulyExposed(c, chunk_y) ==
  {pd \in {p \in Cube : BlockAt(16 * c[1] + p[3], 16 * chunk_y + p[1],
                                16 * c[2] + p[2]) \notin {0, BarrierId}}
          \X FaceOffsets :
     BlockAt(16 * c[1] + pd[1][3] + pd[2][3], 16 * chunk_y + pd[1][1] + pd[2][1],
             16 * c[2] + pd[1][2] + pd[2][2]) = 0}

\* C19: the neighbour test of a cell on the border of its sub-chunk uses
\* the truly adjacent block of the neighbouring column or sub-chunk, so a
\* rebuilt mesh (below the top sub-chunk, in a run in which no assertion
\* failed) has 6 vertices per drawn cell and direction with air truly next
\* to it.
C19_TrueNeighbourAcrossBorder ==
  [][\A c \in CalledColumns, chunk_y \in 0..14 :
       (Rebuilt(c, chunk_y) /\ bad' = {}) =>
         MeshOf(c, chunk_y)' = 6 * Cardinality(TrulyExposed(c, chunk_y)')]_vars

\* Blocks (-1, 5, 3) and (0, 5, 3) touch across the west border of column
\* (0, 0), and the mesh of the column was rebuilt with all six faces of
\* its block.
C19_Witness ==
  /\ last_op = [op |-> "OnBlockChange", args |-> <<0, 5, 3, 7>>]
  /\ bad = {}
  /\ BlockAt(-1, 5, 3) = 7
  /\ BlockAt(0, 5, 3) = 7
  /\ Pending(<<0, 0>>) = 0
  /\ NeighboursLoaded(<<0, 0>>)
  /\ MeshOf(<<0, 0>>, 0) = 36
\* The bordered volume with air in the layer above the top sub-chunk and
\* in the layer below the bottom one.
CappedBordered(w, ctx, chunk_y, Y, Z, X, ptr_hi) ==
  IF (chunk_y = 15 /\ Y = 17) \/ (chunk_y = 0 /\ Y = 0) THEN 0
  ELSE Bordered(w, ctx, chunk_y, Y, Z, X, ptr_hi)

CappedPairs(w, ctx, chunk_y, ptr_hi) ==
  {pd \in DrawnCells(w, ctx, chunk_y, ptr_hi) \X FaceOffsets :
     CappedBordered(w, ctx, chunk_y, pd[1][1] + 1 + pd[2][1],
                    pd[1][2] + 1 + pd[2][2], pd[1][3] + 1 + pd[2][3], ptr_hi) = 0}

\* C20: the layer above the top sub-chunk and the layer below the bottom
\* sub-chunk are air to the mesher, which reads no block outside sub-chunks
\* 0..15: a rebuilt top or bottom mesh (in a run in which no assertion
\* failed) has the vertices of the bordered volume with air in that layer.
C20_AirBeyondColumnHeight ==
  [][\A c \in CalledColumns, chunk_y \in {0, 15} :
       (Rebuilt(c, chunk_y) /\ bad' = {}) =>
         \E ptr_hi \in PtrHi :
           MeshOf(c, chunk_y)' =
             6 * Cardinality(CappedPairs(World', Neighbors(c[1], c[2]),
                                         chunk_y, ptr_hi))]_vars

\* The top sub-chunk of column (0, 0) was rebuilt with a block in its top
\* layer while the storage after the column's section, the bottom layer of
\* column (1, 0), holds a block: the top face is missing.
C20_Witness ==
  /\ last_op = [op |-> "OnBlockChange", args |-> <<0, 255, 0, 7>>]
  /\ bad = {}
  /\ BlockAt(31, 0, 0) = 7
  /\ BlockAt(0, 255, 0) = 7
  /\ Pending(<<0, 0>>) = 0
  /\ MeshOf(<<0, 0>>, 15) = 30
\* The packet whose frame was dispatched last, when it is a chunk-data
\* packet: [column, bitmask, sections] as the server sent them.
LastChunk == sent[Len(dispatched)].arg

\* The sub-chunk of the k-th section of a packet: the k-th set bit of the
\* bitmask, counting from bit 0.
SectionY(bitmask, k) ==
  CHOOSE y \in 0..15 :
    /\ Bit(bitmask, y) = 1
    /\ Cardinality({m \in 0..y : Bit(bitmask, m) = 1}) = k

\* Bit m of a 64-bit word the server packed from fields of width w, and
\* bits [j*b, (j+1)*b) of that word, low bits first.
WordBit(fields, w, m) ==
  IF m \div w < Len(fields) /\ m \div w < 64 \div w
  THEN Bit(fields[(m \div w) + 1], m % w) ELSE 0
BitsOfWord(fields, w, j, b) ==
  LET term(t) == WordBit(fields, w, j * b + t) * Pow2(t)
  IN SumTo(term, 0, b - 1)

\* The width the decoder uses for a section sent with width bpb.
WidthOf(bpb) == IF bpb < 4 THEN 4 ELSE bpb

\* Field j of word i of section sec is stored in slot i*floor(64/b) + j of
\* sub-chunk chunk_y of slot s: through the palette when b < 9, as it is
\* otherwise.  Fields that index past the palette are left aside.
SectionStored(sec, s, chunk_y, b) ==
  \A i \in 0..(Len(sec.words) - 1), j \in 0..((64 \div b) - 1) :
    (b >= 9 \/ BitsOfWord(sec.words[i + 1], sec.bpb, j, b) < Len(sec.palette)) =>
      Block(World, s[1], s[2], chunk_y * SubChunkCells + i * (64 \div b) + j) =
        IF b < 9 THEN sec.palette[BitsOfWord(sec.words[i + 1], sec.bpb, j, b) + 1]
        ELSE BitsOfWord(sec.words[i + 1], sec.bpb, j, b)

\* C21: with b = max(bpb, 4), field j of word i of a section is bits
\* [j*b, (j+1)*b) of the word and is stored in block slot i*floor(64/b) + j
\* of the sub-chunk, as palette[field] when b < 9 and as the field itself
\* when b >= 9.
C21_FieldsDecodedLowBitsFirst ==
  LastIsChunkData =>
    \A k \in 1..Len(LastChunk[4]) :
      SectionStored(LastChunk[4][k], ChunkDataSlot(LastChunk[1], LastChunk[2]),
                    SectionY(LastChunk[3], k), WidthOf(LastChunk[4][k].bpb))

\* The section with bpb = 5, a palette of length 3 and a word whose low 5
\* bits are 2 was decoded: block 0 is palette[2], block 1 palette[1], and
\* block 11, the last field of the word, palette[2].
C21_Witness ==
  /\ LastIsChunkData
  /\ Len(LastChunk[4]) = 1
  /\ LastChunk[4][1].bpb = 5
  /\ LastChunk[4][1].palette = <<0, 5, 9>>
  /\ Block(World, 0, 0, 0) = 9
  /\ Block(World, 0, 0, 1) = 5
  /\ Block(World, 0, 0, 11) = 9
  /\ Block(World, 0, 0, 12) = 0

\* The section without palette (bpb = 14) was decoded: field 3 of word 1
\* is block 7 of sub-chunk 1.
C21_DirectWitness ==
  /\ LastIsChunkData
  /\ Len(LastChunk[4]) = 1
  /\ LastChunk[4][1].bpb = 14
  /\ Block(World, 1, 0, SubChunkCells + 7) = 9000
  /\ Block(World, 1, 0, SubChunkCells) = 300
\* C22: every sub-chunk of a cache slot that holds a block other than air
\* has its presence bit set in the bitmask of that slot.
C22_PresenceBitsCoverBlocks ==
  \A k \in DOMAIN chunks :
    chunks[k] # 0 =>
      Bit(Get(chunk_infos, <<k[1], k[2]>>, NoInfo).bitmask, k[3] \div SubChunkCells) = 1

\* The packet with sub-chunk bitmask 1 whose section holds the single block
\* id 5 was decoded: exactly one cell of the cache is 5 and presence bit 0
\* of the column is clear.
C22_Witness ==
  /\ LastIsChunkData
  /\ LastChunk[3] = 1
  /\ DOMAIN chunks = {<<0, 0, 0>>}
  /\ Block(World, 0, 0, 0) = 5
  /\ Bit(InfoOf(<<0, 0>>).bitmask, 0) = 0
\* The last two frames dispatched are a chunk-data packet with a section
\* and a block change in the column of that packet.
ChangeAfterChunk ==
  /\ Len(dispatched) >= 2
  /\ sent[Len(dispatched) - 1].kind = "chunk_data"
  /\ sent[Len(dispatched) - 1].arg[4] # << >>
  /\ dispatched[Len(dispatched) - 1].id = IdChunkData
  /\ sent[Len(dispatched)].kind = "block_change"
  /\ LastDispatched.id = IdBlockChange
  /\ <<sent[Len(dispatched)].arg[1] \div 16, sent[Len(dispatched)].arg[3] \div 16>>
       = <<sent[Len(dispatched) - 1].arg[1], sent[Len(dispatched) - 1].arg[2]>>

\* Slot s holds the block of the change e = <<x, y, z, new_bid>>.
HoldsChange(s, e) ==
  Block(World, s[1], s[2], CellIndex(e[2] \div 16, e[2] % 16, e[3] % 16, e[1] % 16))
    = e[4]

\* C23: a block change dispatched after a chunk-data packet for its column
\* lands in the cache slot that holds the packet's blocks: one slot holds
\* both, whatever the two coordinates of the column.
C23_ChangeSeesChunkData ==
  ChangeAfterChunk =>
    \E s \in {<<k[1], k[2]>> : k \in DOMAIN chunks} :
      /\ HoldsChange(s, sent[Len(dispatched)].arg)
      /\ SectionStored(sent[Len(dispatched) - 1].arg[4][1], s,
                       SectionY(sent[Len(dispatched) - 1].arg[3], 1),
                       WidthOf(sent[Len(dispatched) - 1].arg[4][1].bpb))

\* The blocks of the chunk-data packet for column (1, 0) are in slot [1][0]
\* and the block of the later change in that column is in slot [0][1].
C23_Witness ==
  /\ ChangeAfterChunk
  /\ sent[1].arg[1] = 1
  /\ sent[1].arg[2] = 0
  /\ Block(World, 1, 0, SubChunkCells) = 300
  /\ Block(World, 0, 1, CellIndex(1, 5, 2, 3)) = 7
  /\ \A k \in DOMAIN chunks :
       <<k[1], k[2]>> = <<0, 1>> <=> k[3] = CellIndex(1, 5, 2, 3)

\* The same for column (0, 0), whose two slot indices are equal: one slot
\* holds both.
C23_SameIndexWitness ==
  /\ ChangeAfterChunk
  /\ sent[1].arg[1] = 0
  /\ sent[1].arg[2] = 0
  /\ HoldsChange(<<0, 0>>, <<3, 5, 2, 7>>)
  /\ Block(World, 0, 0, 0) # 0
\* The fields <<i, j>> of a section with a palette whose value is not an
\* index of the palette.
OutOfPalette(sec) ==
  IF WidthOf(sec.bpb) >= 9 THEN {}
  ELSE {ij \in (0..(Len(sec.words) - 1)) \X (0..((64 \div WidthOf(sec.bpb)) - 1)) :
          BitsOfWord(sec.words[ij[1] + 1], sec.bpb, ij[2], WidthOf(sec.bpb))
            >= Len(sec.palette)}

\* The packet whose frame this step dispatches.
Dispatching == sent[Len(dispatched) + 1]

\* C24: a field of a section with a palette whose value is at least the
\* palette length is refused: nothing read from outside the palette is
\* stored, so the block slot of that field keeps its id.
C24_IndexPastPaletteNotStored ==
  [][(Dispatches /\ Dispatching.kind = "chunk_data") =>
       \A k \in 1..Len(Dispatching.arg[4]) :
         \A ij \in OutOfPalette(Dispatching.arg[4][k]) :
           Block(World', GetChunkCacheIndex(Dispatching.arg[1]),
                 GetChunkCacheIndex(Dispatching.arg[2]),
                 SectionY(Dispatching.arg[3], k) * SubChunkCells
                   + ij[1] * (64 \div WidthOf(Dispatching.arg[4][k].bpb)) + ij[2])
           = Block(World, GetChunkCacheIndex(Dispatching.arg[1]),
                   GetChunkCacheIndex(Dispatching.arg[2]),
                   SectionY(Dispatching.arg[3], k) * SubChunkCells
                     + ij[1] * (64 \div WidthOf(Dispatching.arg[4][k].bpb)) + ij[2])]_vars

\* The section with palette [0, 5] and fields 1, 3 was decoded without a
\* failed assertion: block 0 is palette[1] and block 1, whose field is 3,
\* holds what lay after the palette.
C24_Witness ==
  /\ LastIsChunkData
  /\ LastChunk[4] # << >>
  /\ OutOfPalette(LastChunk[4][1]) = {<<0, 1>>}
  /\ bad = {}
  /\ Len(dispatched) = 1
  /\ Block(World, 0, 1, 0) = 5
  /\ Block(World, 0, 1, 1) = 1

\* The decompressed-size VarInt of the frame at the cursor, in compressed
\* mode, and the offset where that frame ends.
DataLength == ReadVarInt(LengthAtCursor.rb)
TargetAtCursor ==
  (LengthAtCursor.rb.read_offset + LengthAtCursor.value) % read_buffer.size

\* C25: in compressed mode a frame with a nonzero decompressed size is
\* inflated into the scratch buffer, its id and its fields are read from the
\* scratch buffer (a keep-alive is echoed with the id that was deflated) and
\* the primary cursor goes to the target offset; with a zero size nothing is
\* inflated and the id is read from the primary buffer; the frame length is
\* always read from the primary buffer.
C25_CompressedFrameReadFromScratch ==
  [][(Dispatches /\ compression /\ WellFormed(Dispatching)) =>
       /\ LastDispatched'.size = LengthAtCursor.value
       /\ read_buffer'.read_offset = TargetAtCursor
       /\ LastDispatched'.id = Dispatching.id
       /\ IF DataLength.value > 0
          THEN /\ LastDispatched'.inflated
               /\ inflate_buffer'.data = Payload(Dispatching)
               /\ Dispatching.kind = "keep_alive" =>
                    outbox' = Append(outbox, [kind |-> "keep_alive",
                                              id |-> Dispatching.arg])
          ELSE /\ ~LastDispatched'.inflated
               /\ inflate_buffer' = inflate_buffer]_vars

\* A deflated keep-alive was dispatched in compressed mode: the scratch
\* buffer holds its payload, the primary cursor is at the end of the frame.
C25_Witness ==
  /\ Len(dispatched) = 2
  /\ dispatched[1].id = IdSetCompression
  /\ dispatched[2].inflated
  /\ sent[2] = PktKeepAlive(KeepAliveIdB, 0, TRUE)
  /\ inflate_buffer.data = Payload(sent[2])
  /\ read_buffer.read_offset = Len(Stream)
  /\ pc = "idle"

\* A frame sent with decompressed size 0 was dispatched in compressed mode
\* from the primary buffer.
C25_PlainWitness ==
  /\ Len(dispatched) = 2
  /\ dispatched[1].id = IdSetCompression
  /\ ~dispatched[2].inflated
  /\ dispatched[2].id = IdKeepAlive
  /\ outbox = <<[kind |-> "keep_alive", id |-> KeepAliveIdA]>>

\* C26: the decompressor is handed exactly the compressed bytes of the
\* frame, from after the decompressed-size VarInt to the target offset: a
\* frame that carries a whole deflate stream of its payload is inflated
\* without a failure, nothing outside the frame is read, and the scratch
\* buffer then holds the payload.
C26_InflateInputIsFrameRemainder ==
  [][(Dispatches /\ compression /\ Dispatching.z /\ WellFormed(Dispatching)) =>
       /\ LastDispatched'.inflated
       /\ inflate_buffer'.data = Payload(Dispatching)
       /\ bad' \cap {"assert_mz_ok", "inflate_source_outside_buffer"} = {}]_vars

\* The keep-alive whose deflate stream (6 bytes) is shorter than its
\* payload (9 bytes) was inflated: the decompressor was offered 9 bytes and
\* found the end of the stream among them.
C26_Witness ==
  /\ Len(dispatched) = 2
  /\ dispatched[2].inflated
  /\ sent[2] = PktKeepAlive(KeepAliveIdB, 0, TRUE)
  /\ Len(Deflate(Payload(sent[2]))) = 6
  /\ inflate_buffer.data = Payload(sent[2])
  /\ "assert_mz_ok" \notin bad

\* The keep-alive whose deflate stream (10 bytes) is longer than its payload
\* (9 bytes) was dispatched: the decompressor was offered 9 of the 10 bytes.
C26_TruncatedWitness ==
  /\ Len(dispatched) = 2
  /\ dispatched[2].inflated
  /\ sent[2] = PktKeepAlive(KeepAliveIdA, 0, TRUE)
  /\ Len(Deflate(Payload(sent[2]))) = 10
  /\ "assert_mz_ok" \in bad

\* C27: whenever Interpret has returned, no complete frame lies at the
\* cursor of the primary buffer: the read offset equals the write offset, or
\* the bytes from the read offset lack a whole length VarInt or the number
\* of bytes it declares.
C27_ReturnsWithNoCompleteFrame ==
  pc = "idle" =>
    \/ read_buffer.read_offset = read_buffer.write_offset
    \/ FrameIncomplete

\* Interpret returned after it dispatched two frames delivered together and
\* emptied the buffer.
C27_Witness ==
  /\ pc = "idle"
  /\ Len(dispatched) = 2
  /\ wire = << >>
  /\ read_buffer.read_offset = read_buffer.write_offset
  /\ read_buffer.read_offset = Len(Stream)

\* Interpret returned after it dispatched a frame, with the first bytes of
\* the next frame left at the cursor.
C27_PartialWitness ==
  /\ pc = "idle"
  /\ Len(dispatched) = 1
  /\ read_buffer.read_offset # read_buffer.write_offset
  /\ read_buffer.read_offset = Len(SentFrame(1))
  /\ FrameIncomplete

\* The chunk-data packet p as it was sent: the number of body bytes before
\* its data-size VarInt (two coordinates, the flag, the bitmask, the
\* heightmaps, the biomes of a full chunk), and that VarInt read from the
\* body.
ChunkHeaderLen(p) ==
  9 + Len(EncVarInt(p.arg[3])) + Len(EncHeightmaps) + (IF p.body[9] # 0 THEN 2 ELSE 0)
DataSizeField(p) ==
  ReadVarInt([data |-> p.body, read_offset |-> ChunkHeaderLen(p),
              write_offset |-> Len(p.body), size |-> Len(p.body) + 1])

\* The frame at the cursor is a whole chunk-data frame about to be handled.
ChunkDataAtCursor ==
  /\ pc = "interp"
  /\ Len(dispatched) < Len(sent)
  /\ Dispatching.kind = "chunk_data"
  /\ ~FrameIncomplete

\* Where the claim puts the cursor: the offset after the data-size VarInt
\* (the length VarInt, one byte of id, the body up to and including the
\* data-size VarInt) plus data_size, mod the buffer size.
NewOffset ==
  (ReadVarInt(LengthAtCursor.rb).rb.read_offset
     + DataSizeField(Dispatching).rb.read_offset
     + DataSizeField(Dispatching).value) % read_buffer.size

\* The cursor when the chunk-data handler is done with the frame at the
\* cursor, before the loop forces it to the end of the frame.
HandlerCursor(g) ==
  HandleChunkData(Decoder, ReadVarInt(LengthAtCursor.rb).rb, g, 0).cur.read_offset

\* C28: the chunk-data handler, whatever its sections consumed, puts the
\* cursor at (offset after the data-size VarInt + data_size) mod size and
\* reads the block-entity count there: it leaves the cursor after the VarInt
\* found at that offset.
C28_JumpsPastDeclaredData ==
  ChunkDataAtCursor =>
    \A g \in Garbage :
      HandlerCursor(g) =
        ReadVarInt([read_buffer EXCEPT !.read_offset = NewOffset]).rb.read_offset

\* A chunk-data frame whose data_size is 3 more than its one section takes
\* is about to be handled: the count is read from the last byte of the frame.
C28_Witness ==
  /\ ChunkDataAtCursor
  /\ Len(Dispatching.arg[4]) = 1
  /\ DataSizeField(Dispatching).value
       = Len(EncSection(Dispatching.arg[4][1])) + 3
  /\ NewOffset = (TargetAtCursor + read_buffer.size - 1) % read_buffer.size
  /\ HandlerCursor(0) = TargetAtCursor

\* A chunk-data frame with bitmask 1 and data_size 0 is about to be handled.
C28_EmptyWitness ==
  /\ ChunkDataAtCursor
  /\ Dispatching.arg[3] = 1
  /\ DataSizeField(Dispatching).value = 0
  /\ HandlerCursor(0) = TargetAtCursor

\* Column c is recorded as the occupant of slot s.
Occupies(c, s) ==
  /\ Get(chunk_infos, s, NoInfo).x = c[1]
  /\ Get(chunk_infos, s, NoInfo).z = c[2]

\* C29: after a chunk-data packet for column (x,z) has been dispatched, the
\* cache slot of (x,z) records (x,z) as its occupant, also when the packet's
\* bitmask is 0 or its data size is 0.  The slot is taken to be the one the
\* world addresses for (x,z) or the one the handler addresses.
C29_ChunkDataRecordsOccupant ==
  LastIsChunkData =>
    \/ Occupies(LastChunkColumn, SlotOf(LastChunkColumn))
    \/ Occupies(LastChunkColumn, ChunkDataSlot(LastChunkColumn[1], LastChunkColumn[2]))

\* The packet for column (2, 3) with bitmask 0 was dispatched as the only
\* packet and no slot records anything.
C29_Witness ==
  /\ LastIsChunkData
  /\ Len(dispatched) = 1
  /\ pc = "idle"
  /\ LastChunkColumn = <<2, 3>>
  /\ LastChunk[3] = 0
  /\ chunk_infos = EmptyMap

\* The packet for column (0, 1) with one section was dispatched and the
\* slot the handler addresses records (0, 1).
C29_SectionWitness ==
  /\ LastIsChunkData
  /\ Len(dispatched) = 1
  /\ LastChunkColumn = <<0, 1>>
  /\ Occupies(<<0, 1>>, ChunkDataSlot(0, 1))
  /\ ~Occupies(<<0, 1>>, SlotOf(<<0, 1>>))

\* Column c and its four horizontal neighbours.
WithNeighbours(c) ==
  {c, <<c[1] + 1, c[2]>>, <<c[1] - 1, c[2]>>, <<c[1], c[2] + 1>>, <<c[1], c[2] - 1>>}

\* The slot of column c stores the coordinate of c.
StoresColumn(c) == InfoOf(c).x = c[1] /\ InfoOf(c).z = c[2]

\* C30: a scheduling pass takes a pending column (x,z) off the queue and
\* meshes it only if the slot of (x,z) and the slots of its four horizontal
\* neighbours each store the coordinate asked for, not merely a loaded flag.
C30_MeshesOnlyMatchingSlots ==
  [][last_op'.op = "Update" =>
       \A c \in PendingColumns :
         Pending(c)' < Pending(c) => \A n \in WithNeighbours(c) : StoresColumn(n)]_vars

\* A pass has meshed column (0,0) and taken it off the queue while the four
\* neighbour slots, flagged loaded, store the coordinate (0,0) of the zeroed
\* cache and not their own.
C30_Witness ==
  /\ last_op.op = "Update"
  /\ Pending(<<0, 0>>) = 0
  /\ MeshOf(<<0, 0>>, 0) > 0
  /\ \A k \in 1..Len(SchedRing) :
       /\ InfoOf(SchedRing[k]).loaded
       /\ ~StoresColumn(SchedRing[k])
       /\ InfoOf(SchedRing[k]).x = 0
       /\ InfoOf(SchedRing[k]).z = 0

\* The column, the sub-chunk and the mesh entry a direct call of
\* OnBlockChange addresses, from its arguments.
EditColumn == <<last_op'.args[1] \div 16, last_op'.args[3] \div 16>>
EditSubChunk == last_op'.args[2] \div 16
EditMeshKey == <<SlotOf(EditColumn)[1], SlotOf(EditColumn)[2], EditSubChunk>>
EditCell ==
  CellIndex(EditSubChunk, last_op'.args[2] % 16, last_op'.args[3] % 16,
            last_op'.args[1] % 16)

\* The vertex count the mesher gives sub-chunk chunk_y of column c in world w.
MeshCounts(w, ctx, chunk_y) ==
  {MeshVertexCount(w, ctx, chunk_y, ptr_hi) : ptr_hi \in PtrHi}

\* C31: OnBlockChange stores the block and leaves the queue as it is; on a
\* column that is in the build queue it changes no mesh, on a column that is
\* not it rebuilds the mesh of the sub-chunk y div 16 of that column from
\* the new block data and changes no other mesh.
C31_EditRebuildsOnlyUnqueued ==
  [][EditStep =>
       /\ build_queue' = build_queue
       /\ Block(World', SlotOf(EditColumn)[1], SlotOf(EditColumn)[2], EditCell)
            = last_op'.args[4]
       /\ \A k \in (DOMAIN meshes \cup DOMAIN meshes') \ {EditMeshKey} :
            Get(meshes', k, 0) = Get(meshes, k, 0)
       /\ IF Pending(EditColumn) > 0
          THEN Get(meshes', EditMeshKey, 0) = Get(meshes, EditMeshKey, 0)
          ELSE Get(meshes', EditMeshKey, 0)
                 \in MeshCounts(World', Neighbors(EditColumn[1], EditColumn[2]),
                                EditSubChunk)]_vars

\* A block was placed in column (0,0) after a pass had built it and taken
\* it off the queue: sub-chunk 0 has a mesh and the queue still holds the
\* four neighbours.
C31_Witness ==
  /\ last_op = [op |-> "OnBlockChange", args |-> <<3, 5, 3, BarrierId>>]
  /\ Pending(<<0, 0>>) = 0
  /\ InfoOf(<<0, 0>>).loaded
  /\ Len(build_queue) = 4
  /\ MeshOf(<<0, 0>>, 0) > 0
  /\ Block(World, 0, 0, CellIndex(0, 5, 3, 3)) = BarrierId

\* A block was placed in column (0,0) while it was pending: the block is
\* stored and there is no mesh.
C31_QueuedWitness ==
  /\ last_op = [op |-> "OnBlockChange", args |-> <<0, 5, 3, 7>>]
  /\ Pending(<<0, 0>>) = 1
  /\ Block(World, 0, 0, CellIndex(0, 5, 3, 0)) = 7
  /\ meshes = EmptyMap

\* The 64-bit value (x << 38) | (z << 12) | y of the probe's input, as the
\* bits of its 26-, 26- and 12-bit fields.
PackedBit(k) ==
  IF k < 12 THEN Bit(probe.in[2], k)
  ELSE IF k < 38 THEN Bit(probe.in[3] % Pow2(26), k - 12)
  ELSE Bit(probe.in[1] % Pow2(26), k - 38)

\* The raw 26-bit field made of bits lo..lo+25 of that value.
RawField(lo) ==
  LET term(k) == PackedBit(lo + k) * Pow2(k) IN SumTo(term, 0, 25)

\* C32: the block-change position decode takes X from bits 38..63 and Z from
\* bits 12..37, each as 26-bit two's complement (a raw field >= 2^25 is
\* raw - 2^26), and Y from bits 0..11; packing x and z in [-2^25, 2^25) and
\* decoding gives x and z back.
C32_PositionRoundTrip ==
  probe.done =>
    /\ probe.out[1] = probe.in[1]
    /\ probe.out[3] = probe.in[3]
    /\ probe.out[1] = IF RawField(38) >= Pow2(25) THEN RawField(38) - Pow2(26)
                      ELSE RawField(38)
    /\ probe.out[3] = IF RawField(12) >= Pow2(25) THEN RawField(12) - Pow2(26)
                      ELSE RawField(12)
    /\ probe.out[2] % 4096 = probe.in[2]

\* The position (-2^25, 5, 2^25 - 1) was packed and decoded.
C32_Witness ==
  /\ probe.done
  /\ probe.in = <<-Pow2(25), 5, Pow2(25) - 1>>
  /\ probe.out = <<-Pow2(25), 5, Pow2(25) - 1>>
  /\ RawField(38) = Pow2(25)

\* C33: the assertion of OnBlockChange never fails: whenever a block change
\* arrives for a column that is not in the build queue, the four horizontal
\* neighbour slots of that column are loaded, whatever loads, unloads,
\* passes and block changes came before.
C33_EditAssertionHolds ==
  [][EditStep =>
       /\ Pending(EditColumn) = 0 => NeighboursLoaded(EditColumn)
       /\ "assert_has_neighbors" \notin bad']_vars

\* Column (0,0) was built by a pass, its neighbour (-1,0) was unloaded, and
\* a block change for (0,0) then found the column not pending and a
\* neighbour not loaded.
C33_Witness ==
  /\ last_op = [op |-> "OnBlockChange", args |-> <<0, 5, 3, 7>>]
  /\ InfoOf(<<0, 0>>).loaded
  /\ Pending(<<0, 0>>) = 0
  /\ ~InfoOf(<<-1, 0>>).loaded
  /\ InfoOf(<<1, 0>>).loaded /\ InfoOf(<<0, 1>>).loaded /\ InfoOf(<<0, -1>>).loaded
  /\ "assert_has_neighbors" \in bad

\* A block change for a column that was never loaded, on the world as
\* constructed: the assertion failed.
C33_NeverLoadedWitness ==
  /\ last_op = [op |-> "OnBlockChange", args |-> <<0, 5, 3, 7>>]
  /\ edits = 1
  /\ \A s \in DOMAIN chunk_infos : ~chunk_infos[s].loaded
  /\ build_queue = << >>
  /\ bad = {"assert_has_neighbors"}

\* The sub-chunks a chunk-data packet has sections for.
SubChunksOf(bitmask) == {y \in 0..15 : Bit(bitmask, y) = 1}

\* The block slots whose content this step changes.
ChangedCells ==
  {k \in DOMAIN chunks \cup DOMAIN chunks' : Get(chunks', k, 0) # Get(chunks, k, 0)}

\* C34: decoding a bit-packed section writes at most 4096 block slots, all
\* of them in the 16x16x16 array of that sub-chunk, whatever word count the
\* section declares: nothing is written into another sub-chunk or past the
\* end of the column.
C34_SectionStaysInSubChunk ==
  [][(Dispatches /\ Len(dispatched) < Len(sent) /\ Dispatching.kind = "chunk_data") =>
       /\ \A k \in ChangedCells :
            k[3] \div SubChunkCells \in SubChunksOf(Dispatching.arg[3])
       /\ "block_outside_column" \notin bad']_vars

\* The section of sub-chunk 0 that declares 342 words at 5 bits per block
\* was decoded on an empty world: 4104 slots hold a block, the last 8 of
\* them in sub-chunk 1.
C34_Witness ==
  /\ LastIsChunkData
  /\ Len(dispatched) = 1
  /\ LastChunk[3] = 1
  /\ LastChunk[5] = 342
  /\ Block(World, 0, 0, SubChunkCells - 1) = 5
  /\ Block(World, 0, 0, SubChunkCells) = 5
  /\ Block(World, 0, 0, SubChunkCells + 7) = 5
  /\ Block(World, 0, 0, SubChunkCells + 8) = 0
  /\ bad = {}

\* The section that declares 256 words at 4 bits per block was decoded: it
\* fills sub-chunk 0 exactly.
C34_ExactWitness ==
  /\ LastIsChunkData
  /\ Len(dispatched) = 1
  /\ LastChunk[5] = 256
  /\ Block(World, 0, 0, SubChunkCells - 1) = 7
  /\ Block(World, 0, 0, SubChunkCells) = 0

\* The same section for sub-chunk 15 was decoded: the fields after the
\* 4096th fall past the end of the column.
C34_TopWitness ==
  /\ LastIsChunkData
  /\ Len(dispatched) = 1
  /\ LastChunk[3] = 32768
  /\ Block(World, 0, 0, SectionCells - 1) = 5
  /\ "block_outside_column" \in bad

\* C35: for every position the block-change handlers decode, OnBlockChange
\* addresses a sub-chunk in 0..15 and a local y in 0..15: no block is read
\* or written outside the column's 16 sub-chunks and no presence bit is set
\* outside bits 0..15.
C35_EditsStayInColumn ==
  /\ bad \cap {"block_outside_column", "bitmask_shift", "mesh_outside_column"} = {}
  /\ \A s \in DOMAIN chunk_infos : chunk_infos[s].bitmask < Pow2(16)

\* The block change at y = 255 was dispatched: the block is in the top layer
\* of sub-chunk 15 and presence bit 15 is set.
C35_Witness ==
  /\ Len(dispatched) = 1
  /\ sent[1] = PktBlockChange(3, 255, 3, 7)
  /\ Block(World, 0, 0, CellIndex(15, 15, 3, 3)) = 7
  /\ InfoOf(<<0, 0>>).bitmask = Pow2(15)
  /\ bad \cap {"block_outside_column", "bitmask_shift", "mesh_outside_column"} = {}

\* The block change at y = 256 was dispatched: sub-chunk 16 was addressed
\* and presence bit 16 is set.
C35_AboveWitness ==
  /\ Len(dispatched) = 1
  /\ sent[1] = PktBlockChange(3, 256, 3, 7)
  /\ "block_outside_column" \in bad
  /\ InfoOf(<<0, 0>>).bitmask = Pow2(16)

\* The block change at y = -1 was dispatched: local y -1 of sub-chunk 0 was
\* addressed.
C35_BelowWitness ==
  /\ Len(dispatched) = 1
  /\ sent[1] = PktBlockChange(3, -1, 3, 7)
  /\ "block_outside_column" \in bad
  /\ chunks = EmptyMap

\* C36: build_queue_count never exceeds the 1024 entries of
\* World::build_queue, whatever loads, unloads and passes are made.
C36_QueueWithinCapacity == Len(build_queue) <= BuildQueueCapacity

\* OnChunkLoad was called with the queue full: the entry of column
\* (1024, 0) is the 1025th, and no entry was ever taken off.
C36_Witness ==
  /\ last_op = [op |-> "OnChunkLoad", args |-> <<BuildQueueCapacity, 0>>]
  /\ Len(build_queue) = BuildQueueCapacity + 1
  /\ build_queue[1] = <<0, 0>>
  /\ build_queue[BuildQueueCapacity + 1] = <<BuildQueueCapacity, 0>>
  /\ meshes = EmptyMap

\* C37: a scheduling pass never meshes a queued column whose own slot is not
\* loaded: a column unloaded while pending is not taken off the queue by a
\* later pass and gains no mesh geometry, even with its four neighbours
\* loaded.
C37_PassSkipsUnloadedColumn ==
  [][last_op'.op = "Update" =>
       \A c \in PendingColumns :
         ~InfoOf(c).loaded =>
           /\ Pending(c)' = Pending(c)
           /\ \A chunk_y \in 0..15 : MeshOf(c, chunk_y)' = MeshOf(c, chunk_y)]_vars

\* Column (0,0) was loaded, received a block while pending, and was
\* unloaded before any pass; the pass made after its four neighbours were
\* loaded took it off the queue and gave its sub-chunk 0 a mesh.
C37_Witness ==
  /\ last_op.op = "Update"
  /\ ~InfoOf(<<0, 0>>).loaded
  /\ StoresColumn(<<0, 0>>)
  /\ NeighboursLoaded(<<0, 0>>)
  /\ Pending(<<0, 0>>) = 0
  /\ MeshOf(<<0, 0>>, 0) > 0
  /\ Block(World, 0, 0, CellIndex(0, 5, 3, 0)) = 7
  /\ edits = 1

\* Sub-chunk chunk_y of column c has the mesh the mesher produces from the
\* block data as it is now.
MeshUpToDate(c, chunk_y) ==
  MeshOf(c, chunk_y) \in MeshCounts(World, Neighbors(c[1], c[2]), chunk_y)

\* C38: after any sequence of loads, passes and block changes, every mesh
\* of a loaded column that is not pending equals what the mesher produces
\* from the current block data of that sub-chunk and of the six sections
\* around it.
C38_MeshesUpToDate ==
  \A c \in SchedColumns :
    (InfoOf(c).loaded /\ Pending(c) = 0) =>
      \A chunk_y \in 0..15 : MeshUpToDate(c, chunk_y)

\* Column (0,0) was built with one block at its west edge, 36 vertices; a
\* block was then placed in the pending column (-1,0), in the cell the
\* mesher copies beside it: the mesh of (0,0) was not rebuilt and still
\* has the face the mesher no longer produces.
C38_Witness ==
  /\ last_op = [op |-> "OnBlockChange", args |-> <<-1, 6, 4, 7>>]
  /\ InfoOf(<<0, 0>>).loaded
  /\ Pending(<<0, 0>>) = 0
  /\ Pending(<<-1, 0>>) = 1
  /\ Block(World, 0, 0, CellIndex(0, 5, 3, 0)) = 7
  /\ MeshOf(<<0, 0>>, 0) = 36
  /\ MeshCounts(World, Neighbors(0, 0), 0) = {30}
  /\ bad = {}

\* Column (0,0) was built with one block at the top of sub-chunk 0; a block
\* was then placed in sub-chunk 1, in the cell the mesher copies above it:
\* sub-chunk 1 was rebuilt and sub-chunk 0 was not.
C38_SubChunkWitness ==
  /\ last_op = [op |-> "OnBlockChange", args |-> <<1, 16, 4, 7>>]
  /\ InfoOf(<<0, 0>>).loaded
  /\ Pending(<<0, 0>>) = 0
  /\ MeshOf(<<0, 0>>, 0) = 36
  /\ MeshCounts(World, Neighbors(0, 0), 0) = {30}
  /\ MeshUpToDate(<<0, 0>>, 1)
  /\ bad = {}

\* The bytes of the primary buffer between the end of the length VarInt at
\* the cursor and offset off.
FromFrameStart(off) ==
  (off - LengthAtCursor.rb.read_offset + read_buffer.size) % read_buffer.size

\* A whole frame is at the cursor, about to be handled.
FrameAtCursor == pc = "interp" /\ ~FrameIncomplete

\* The cursor of the primary buffer once the handler of frame f is done,
\* before the loop forces it to the end of the frame.
AfterHandler(f, g) == Dispatch(Decoder, f.pkt_id, f.cur, g, 0).cur.read_offset

\* The reads made for frame f, not inflated, end inside the frame.
ReadsInFrame(f, g) ==
  /\ "assert_id_read" \notin f.bad
  /\ ~f.inflated =>
       /\ FromFrameStart(f.cur.read_offset) <= f.pkt_size
       /\ FromFrameStart(AfterHandler(f, g)) <= f.pkt_size

\* C39: while it handles a frame the decoder reads from the primary buffer
\* only bytes of that frame: the reads of the decompressed-size VarInt, of
\* the packet id and of the handler's fields end at or before the target
\* offset, also for a frame of length 0 and for a frame shorter than the
\* fixed fields of its handler, and the assertion that the packet id was
\* read holds.
C39_ReadsStayInFrame ==
  FrameAtCursor =>
    /\ compression => FromFrameStart(DataLength.rb.read_offset) <= LengthAtCursor.value
    /\ \A g \in Garbage : ReadsInFrame(FrameAt(Decoder, g), g)

\* A frame of length 0 is at the cursor with another frame behind it: the
\* packet id is read from the first byte of the next frame.
C39_Witness ==
  /\ FrameAtCursor
  /\ ~compression
  /\ Dispatching = PktUnknown(5, << >>, -1, FALSE)
  /\ LengthAtCursor.value = 0
  /\ GetReadAmount(LengthAtCursor.rb) > 0
  /\ "assert_id_read" \notin FrameAt(Decoder, 0).bad
  /\ FromFrameStart(FrameAt(Decoder, 0).cur.read_offset) = 1

\* A frame of length 0 is at the cursor and nothing follows it: the read of
\* the packet id fails.
C39_EmptyWitness ==
  /\ FrameAtCursor
  /\ ~compression
  /\ LengthAtCursor.value = 0
  /\ GetReadAmount(LengthAtCursor.rb) = 0
  /\ "assert_id_read" \in FrameAt(Decoder, 0).bad

\* A keep-alive frame that holds 4 of the 8 bytes of its id is at the
\* cursor with another frame behind it: the handler reads 4 bytes of the
\* next frame.
C39_ShortWitness ==
  /\ FrameAtCursor
  /\ ~compression
  /\ Dispatching = PktKeepAlive(KeepAliveIdA, -4, FALSE)
  /\ LengthAtCursor.value = 5
  /\ FromFrameStart(AfterHandler(FrameAt(Decoder, 0), 0)) = 9

\* The bytes by which this step moves the cursor of the primary buffer.
Advance ==
  (read_buffer'.read_offset - read_buffer.read_offset + read_buffer.size)
    % read_buffer.size

\* C40: every iteration of the loop of Interpret either ends the call or
\* moves the primary read offset at least one byte toward the write offset
\* and not past it, nothing being received meanwhile: the iterations of one
\* call are at most the bytes available when it began.
C40_IterationStopsOrAdvances ==
  [][IterationStep =>
       /\ read_buffer'.write_offset = read_buffer.write_offset
       /\ Advance <= GetReadAmount(read_buffer)
       /\ pc' = "interp" =>
            /\ Advance >= 1
            /\ GetReadAmount(read_buffer') < GetReadAmount(read_buffer)]_vars

\* Interpret is between two iterations of one call: two frames arrived
\* together, the first was dispatched and the second is at the cursor.
C40_Witness ==
  /\ pc = "interp"
  /\ Len(dispatched) >= 1
  /\ Len(sent) >= 2
  /\ wire = << >>
  /\ read_buffer.read_offset # read_buffer.write_offset
  /\ ~FrameIncomplete

\* The same after a frame of length 0: the iteration moved the cursor by
\* the one byte of the length.
C40_OneByteWitness ==
  /\ pc = "interp"
  /\ Len(dispatched) = 1
  /\ LastDispatched.size = 0
  /\ read_buffer.read_offset = 1
  /\ read_buffer.write_offset > 1

====
